---- MODULE Spec2Model ----
(***************************************************************************)
(* A model of the deployment pipeline of vs-deploy (objects.ts and         *)
(* plugins/zip.ts): the single-file queue of DeployPluginBase, the         *)
(* context workflow of DeployPluginWithContextBase, the ZIP sink and the   *)
(* fan-out of MultiTargetDeployPluginBase.                                 *)
(*                                                                         *)
(* JavaScript runs one task at a time.  A task is modelled as a chain of   *)
(* steps, one per function of the source; `run` names the function that    *)
(* executes next and its arguments, and no other task (and no change of    *)
(* the cancellation flag) is taken while run.fn # "none".  What waits for  *)
(* an asynchronous result is in `pending`.                                 *)
(***************************************************************************)
EXTENDS Integers, Sequences, FiniteSets, TLC

\* ------------------------------------------------------------------ bounds

\* longest list of files handed to deployWorkspace
MaxFiles == 2

\* how many times the caller's onFileCompleted callback may throw in a run
MaxCallbackThrows == 2

\* longest list of targets createContext resolves for a fan-out
MaxTargets == 2

\* how many file completions the inner plugins raise during one fan-out
MaxReports == 1

\* how many times deployZipFile is called on the same directory
MaxCalls == 2

\* ------------------------------------------------------------------ values

\* file paths; "" is the empty path, which JavaScript treats as falsy
Files == {"a", "b", ""}

\* JavaScript's "no value" for an error: undefined (argument left out) or null
NoErr == {"undefined", "null"}

ErrDeploy == "Error:deploy"
ErrThrown == "Error:thrown"
ErrCallback == "Error:callback"
ErrCreate == "Error:createContext"
ErrCreateThrown == "Error:createContext:thrown"
ErrDestroy == "Error:destroy"
ErrRead == "Error:readFile"
ErrMkdirs == "Error:mkdirs"
ErrLstat == "Error:lstat"
ErrNoDirectory == "Error:isNo.directory"
ErrFileExists == "Error:plugins.zip.fileAlreadyExists"
ErrWrite == "Error:writeFile"
ErrGenerate == "Error:generate"

\* all lists over S of length 0..n
SeqsUpTo(S, n) == UNION {[1..k -> S] : k \in 0..n}

\* what a backend reports for one file: {error, canceled} of its onCompleted
Outcomes == {[error |-> e, canceled |-> c] : e \in {"undefined", ErrDeploy}, c \in {"undefined", "true"}}

\* deploy_helpers.toBooleanSafe(val): undefined and null give the default
\* (false), anything else its truth value
ToBooleanSafe(val) == val = "true"

\* an entry of the observable trace
Ev(ev, file, error, canceled) == [ev |-> ev, file |-> file, error |-> error, canceled |-> canceled]

\* the function that runs next in the current task, with its arguments
Fn(fn, file, error, canceled) == [fn |-> fn, file |-> file, error |-> error, canceled |-> canceled]

Idle == Fn("none", "-", "undefined", "undefined")

\* what the run waits for: a createContext promise, a file in flight (an
\* asynchronous backend operation), or a destroy promise
Pending(what, file) == [what |-> what, file |-> file]

NoPending == Pending("none", "-")

VARIABLES kind, files, filesTodo, cancelling, started, log, run, pending, cbThrows, stack, task, wrapper, saved, archive, sink, fs, targets, targetsTodo, pluginsTodo, currentTarget, arg, result, backend, other, nest

vars == <<kind, files, filesTodo, cancelling, started, log, run, pending, cbThrows, stack, task, wrapper, saved, archive, sink, fs, targets, targetsTodo, pluginsTodo, currentTarget, arg, result, backend, other, nest>>

\* the argument and the result of a function that is called on its own
fnVars == <<arg, result>>

\* the variables of the specifications that put a workflow under conditions
\* the other specifications leave out
sideVars == <<backend, other, nest>>

\* the variables only the context workflow uses
ctxVars == <<stack, task, wrapper, saved>>

\* the variables only the ZIP plugin uses
zipVars == <<archive, sink, fs>>

\* the variables only the multi-target fan-out uses
multiVars == <<targets, targetsTodo, pluginsTodo, currentTarget>>

\* the ZIP sink before deployZipFile is called.  pc is the file system
\* operation it waits for, ops are the operations it has issued, now is the
\* second the call was made in, call counts the calls, and before holds how
\* the earlier calls ended.
NoSink == [pc |-> "none", error |-> "undefined", ops |-> <<>>, now |-> 0, call |-> 0, before |-> <<>>]

\* deployZipFile(zip, target) in second t, up to its return: it has asked
\* FS.exists(targetDir)
StartSink(t) ==
    [pc |-> "existsDir", error |-> "undefined", ops |-> <<"FS.exists(targetDir)">>, now |-> t, call |-> sink.call + 1,
     before |-> IF sink.call = 0 THEN <<>> ELSE Append(sink.before, [pc |-> sink.pc, error |-> sink.error, now |-> sink.now])]

\* no workspace_<now>.zip is in the target directory
NoZipFiles == [t \in 1..MaxCalls |-> "none"]

\* a backend that keeps its contract: no call of deployFileWithContext goes
\* on after it has reported (frames), and with that no more than one
\* operation is in flight (parked).  No second deployZipFile run is in flight
\* beside the one in sink (other), and no fan-out runs inside a fan-out (nest).
NoBackend == [frames |-> <<>>, parked |-> <<>>, count |-> 0]

InitNoSide ==
    /\ backend = NoBackend
    /\ other = NoSink
    /\ nest = <<>>

\* no function is called on its own during a deployWorkspace run
InitNoFn ==
    /\ arg = [fn |-> "none"]
    /\ result = [done |-> FALSE]

\* the part of the state a plugin without a context leaves as it is
InitNoCtx ==
    /\ stack = <<>>
    /\ task = "none"
    /\ wrapper = [destroy |-> FALSE]
    /\ saved = [error |-> "undefined", canceled |-> "undefined"]

\* the part of the state a plugin other than the ZIP plugin leaves as it is
InitNoZip ==
    /\ archive = <<>>
    /\ sink = NoSink
    /\ fs = [dir |-> "dir", zip |-> NoZipFiles]

\* the part of the state a plugin other than the fan-out leaves as it is
InitNoMulti ==
    /\ targets = <<>>
    /\ targetsTodo = <<>>
    /\ pluginsTodo = <<>>
    /\ currentTarget = "-"

\* the call of deployWorkspace, with what context.isCancelling() answers then
Called == Ev("deployWorkspace", "-", "undefined", IF cancelling THEN "true" ELSE "false")

\* `completed` of deployWorkspace (DeployPluginBase and
\* DeployPluginWithContextBase have the same closure): the queue is dropped
\* and onCompleted is raised; l is the trace up to the call.  When the call
\* came from MultiFileDeployPluginBase.deployFile, its onCompleted raises the
\* file-level onCompleted with the same error and canceled and with the file.
Completed(l, err, canceled) ==
    /\ filesTodo' = <<>>
    /\ log' = Append(l, Ev("onCompleted", "-", err, canceled))
                 \o (IF arg.fn = "deployFile" THEN <<Ev("file.onCompleted", arg.file, err, canceled)>> ELSE <<>>)
    /\ run' = Idle

\* ------------------------------------------------------ DeployPluginBase

InitBase ==
    /\ InitNoSide
    /\ kind = "base"
    /\ files \in SeqsUpTo(Files, MaxFiles)
    /\ filesTodo = <<>>
    /\ cancelling \in BOOLEAN
    /\ started = FALSE
    /\ log = <<>>
    /\ run = Idle
    /\ pending = NoPending
    /\ cbThrows = 0
    /\ InitNoFn
    /\ InitNoMulti
    /\ InitNoCtx
    /\ InitNoZip

\* deployWorkspace(files, target, opts) up to its first call of deployNextFile
BaseDeployWorkspace ==
    /\ kind = "base"
    /\ ~started
    /\ started' = TRUE
    /\ LET l == Append(log, Called) IN
       IF cancelling
         THEN Completed(l, "null", "true")
         ELSE /\ filesTodo' = files
              /\ run' = Fn("deployNextFile", "-", "undefined", "undefined")
              /\ log' = l
    /\ UNCHANGED <<fnVars, sideVars, kind, files, cancelling, pending, cbThrows, ctxVars, zipVars, multiVars>>

\* a deployNextFile whose queue is the caller's list itself
\* (let filesTodo = files): shift() takes the file out of both
BaseDeployNextFileSharedQueue ==
    /\ kind = "base"
    /\ run.fn = "deployNextFile"
    /\ IF Len(filesTodo) < 1
         THEN Completed(log, "undefined", "undefined") /\ pending' = pending /\ files' = files
         ELSE LET f == Head(filesTodo) IN
              IF f = ""
                THEN Completed(log, "undefined", "undefined") /\ pending' = pending /\ files' = Tail(files)
                ELSE /\ filesTodo' = Tail(filesTodo)
                     /\ files' = Tail(files)
                     /\ log' = Append(log, Ev("deployFile", f, "undefined", "undefined"))
                     /\ \/ \E o \in Outcomes :
                             /\ run' = Fn("fileCompleted", f, o.error, o.canceled)
                             /\ pending' = pending
                        \/ /\ run' = Fn("fileCompleted", f, ErrThrown, "undefined")
                           /\ pending' = pending
                        \/ /\ run' = Idle
                           /\ pending' = Pending("file", f)
    /\ UNCHANGED <<fnVars, sideVars, kind, cancelling, started, cbThrows, ctxVars, zipVars, multiVars>>

\* deployNextFile: takes the head of the queue and dispatches it to deployFile.
\* The backend reports synchronously, throws, or reports later.
BaseDeployNextFile ==
    /\ kind = "base"
    /\ run.fn = "deployNextFile"
    /\ IF Len(filesTodo) < 1
         THEN Completed(log, "undefined", "undefined") /\ pending' = pending
         ELSE LET f == Head(filesTodo) IN
              IF f = ""
                THEN Completed(log, "undefined", "undefined") /\ pending' = pending
                ELSE /\ filesTodo' = Tail(filesTodo)
                     /\ log' = Append(log, Ev("deployFile", f, "undefined", "undefined"))
                     /\ \/ \E o \in Outcomes :
                             /\ run' = Fn("fileCompleted", f, o.error, o.canceled)
                             /\ pending' = pending
                        \/ /\ run' = Fn("fileCompleted", f, ErrThrown, "undefined")
                           /\ pending' = pending
                        \/ /\ run' = Idle
                           /\ pending' = Pending("file", f)
    /\ UNCHANGED <<fnVars, sideVars, kind, files, cancelling, started, cbThrows, ctxVars, zipVars, multiVars>>

\* the backend's asynchronous onCompleted for the file in flight
BaseFileCompletesAsync ==
    /\ kind = "base"
    /\ run.fn = "none"
    /\ pending.what = "file"
    /\ \E o \in Outcomes : run' = Fn("fileCompleted", pending.file, o.error, o.canceled)
    /\ pending' = NoPending
    /\ UNCHANGED <<fnVars, sideVars, kind, files, filesTodo, cancelling, started, log, cbThrows, ctxVars, zipVars, multiVars>>

\* a fileCompleted whose catch block logs and goes on with the queue:
\* catch (err) { log(err); deployNextFile(); }
BaseFileCompletedCatchGoesOn ==
    /\ kind = "base"
    /\ run.fn = "fileCompleted"
    /\ LET l == Append(log, Ev("onFileCompleted", run.file, run.error, run.canceled)) IN
       \/ /\ cbThrows < MaxCallbackThrows
          /\ cbThrows' = cbThrows + 1
          /\ log' = Append(l, Ev("log", run.file, ErrCallback, "undefined"))
          /\ run' = Fn("deployNextFile", "-", "undefined", "undefined")
          /\ filesTodo' = filesTodo
       \/ /\ cbThrows' = cbThrows
          /\ IF ToBooleanSafe(run.canceled)
               THEN Completed(l, "null", "true")
               ELSE /\ log' = l
                    /\ run' = Fn("deployNextFile", "-", "undefined", "undefined")
                    /\ filesTodo' = filesTodo
    /\ UNCHANGED <<fnVars, sideVars, kind, files, cancelling, started, pending, ctxVars, zipVars, multiVars>>

\* fileCompleted(sender, e): raises onFileCompleted, then completes as canceled
\* or moves on; whatever is thrown in it is logged
BaseFileCompleted ==
    /\ kind = "base"
    /\ run.fn = "fileCompleted"
    /\ LET l == Append(log, Ev("onFileCompleted", run.file, run.error, run.canceled)) IN
       \/ /\ cbThrows < MaxCallbackThrows
          /\ cbThrows' = cbThrows + 1
          /\ log' = Append(l, Ev("log", run.file, ErrCallback, "undefined"))
          /\ run' = Idle
          /\ filesTodo' = filesTodo
       \/ /\ cbThrows' = cbThrows
          /\ IF ToBooleanSafe(run.canceled)
               THEN Completed(l, "null", "true")
               ELSE /\ log' = l
                    /\ run' = Fn("deployNextFile", "-", "undefined", "undefined")
                    /\ filesTodo' = filesTodo
    /\ UNCHANGED <<fnVars, sideVars, kind, files, cancelling, started, pending, ctxVars, zipVars, multiVars>>

\* the user asks for cancellation: context.isCancelling() turns true
Cancel ==
    /\ run.fn = "none"
    /\ started
    /\ ~cancelling
    /\ cancelling' = TRUE
    /\ UNCHANGED <<fnVars, sideVars, kind, files, filesTodo, started, log, run, pending, cbThrows, ctxVars, zipVars, multiVars>>

NextBase ==
    \/ BaseDeployWorkspace
    \/ BaseDeployNextFile
    \/ BaseFileCompletesAsync
    \/ BaseFileCompleted
    \/ Cancel

SpecBase == InitBase /\ [][NextBase]_vars

\* ------------------------------------------- DeployPluginWithContextBase

\* the plugins whose deployWorkspace is DeployPluginWithContextBase's
IsCtx == kind \in {"ctx", "zip"}

\* What deployFileWithContext may do with a file.  An abstract backend
\* reports any outcome synchronously, throws, or reports later.
\* ZipFileDeployPluginBase.deployFileWithContext reports canceled at once when
\* context.isCancelling(); else it calls FS.readFile, which throws (caught:
\* completed(e)) or calls back later.
SyncOutcomes ==
    IF kind = "zip"
      THEN IF cancelling
             THEN {[error |-> "null", canceled |-> "true"]}
             ELSE {[error |-> ErrRead, canceled |-> "undefined"]}
      ELSE Outcomes

MayThrow == kind = "ctx"

MayDefer == kind = "ctx" \/ ~cancelling

\* a readFile callback that adds the entry although the read failed
AsyncOutcomesAddOnError ==
    IF kind = "zip"
      THEN {[error |-> ErrRead, canceled |-> "undefined", added |-> TRUE],
            [error |-> "undefined", canceled |-> "undefined", added |-> TRUE]}
      ELSE {[error |-> o.error, canceled |-> o.canceled, added |-> FALSE] : o \in Outcomes}

\* What a backend's asynchronous callback reports.  The ZIP backend's
\* FS.readFile callback reports the read error, or adds the entry and reports
\* success from inside its try block (added = TRUE).
AsyncOutcomes ==
    IF kind = "zip"
      THEN {[error |-> ErrRead, canceled |-> "undefined", added |-> FALSE],
            [error |-> "undefined", canceled |-> "undefined", added |-> TRUE]}
      ELSE {[error |-> o.error, canceled |-> o.canceled, added |-> FALSE] : o \in Outcomes}

\* a destroyContext that raises onCompleted first and invokes destroy after it
DestroyContextAfterCompleted(l, err, canceled) ==
    /\ stack' = <<>>
    /\ task' = "none"
    /\ wrapper' = wrapper
    /\ UNCHANGED <<archive, fs, saved, sink>>
    /\ pending' = NoPending
    /\ filesTodo' = <<>>
    /\ run' = Idle
    /\ log' = l \o <<Ev("destroyContext", "-", err, canceled), Ev("onCompleted", "-", err, canceled)>>
                \o (IF wrapper.destroy THEN <<Ev("destroy", "-", "undefined", "undefined")>> ELSE <<>>)

\* destroyContext(wrapper, completedErr, canceled): invokes wrapper.destroy if
\* the wrapper has one and raises onCompleted with the (error, canceled) it was
\* given: at once when there is no destroy or destroy throws, else when the
\* destroy promise settles.  The ZIP wrapper's destroy is deployZipFile, which
\* returns its promise after asking FS.exists(targetDir).  l is the trace up
\* to the call.
DestroyContext(l, err, canceled) ==
    LET l1 == Append(l, Ev("destroyContext", "-", err, canceled)) IN
    /\ stack' = <<>>
    /\ task' = "none"
    /\ wrapper' = wrapper
    /\ UNCHANGED <<archive, fs>>
    /\ IF wrapper.destroy
         THEN LET l2 == Append(l1, Ev("destroy", "-", "undefined", "undefined")) IN
              \/ /\ pending' = Pending("destroy", "-")
                 /\ saved' = [error |-> err, canceled |-> canceled]
                 /\ log' = l2
                 /\ run' = Idle
                 /\ filesTodo' = filesTodo
                 /\ sink' = IF kind = "zip" THEN StartSink(1) ELSE sink
              \/ /\ kind = "ctx"
                 /\ Completed(l2 \o <<Ev("destroyFailed", "-", ErrDestroy, "undefined"), Ev("log", "-", ErrDestroy, "undefined")>>, err, canceled)
                 /\ pending' = NoPending
                 /\ UNCHANGED <<saved, sink>>
         ELSE /\ Completed(l1, err, canceled)
              /\ pending' = NoPending
              /\ UNCHANGED <<saved, sink>>

InitCtx ==
    /\ InitNoSide
    /\ kind = "ctx"
    /\ files \in SeqsUpTo(Files, MaxFiles)
    /\ filesTodo = <<>>
    /\ cancelling \in BOOLEAN
    /\ started = FALSE
    /\ log = <<>>
    /\ run = Idle
    /\ pending = NoPending
    /\ cbThrows = 0
    /\ InitNoFn
    /\ InitNoMulti
    /\ InitNoCtx
    /\ InitNoZip

\* DeployPluginWithContextBase.deployWorkspace(files, target, opts) called
\* with the list fs_, up to the call of createContext
CtxDeployWorkspaceOf(fs_) ==
    /\ IsCtx
    /\ ~started
    /\ started' = TRUE
    /\ files' = fs_
    /\ IF cancelling
         THEN Completed(Append(log, Called), "null", "true") /\ pending' = pending
         ELSE LET l == log \o <<Called, Ev("createContext", "-", "undefined", "undefined")>> IN
              \/ /\ filesTodo' = fs_
                 /\ log' = l
                 /\ run' = Idle
                 /\ pending' = Pending("create", "-")
              \/ /\ kind = "ctx"
                 /\ Completed(Append(l, Ev("contextFailed", "-", ErrCreateThrown, "undefined")), ErrCreateThrown, "undefined")
                 /\ pending' = pending
    /\ UNCHANGED <<fnVars, sideVars, kind, cancelling, cbThrows, ctxVars, zipVars, multiVars>>

\* a deployWorkspace that does not ask context.isCancelling()
CtxDeployWorkspaceNoCancelCheck ==
    /\ IsCtx
    /\ ~started
    /\ started' = TRUE
    /\ LET l == log \o <<Called, Ev("createContext", "-", "undefined", "undefined")>> IN
       \/ /\ filesTodo' = files
          /\ log' = l
          /\ run' = Idle
          /\ pending' = Pending("create", "-")
       \/ /\ kind = "ctx"
          /\ Completed(Append(l, Ev("contextFailed", "-", ErrCreateThrown, "undefined")), ErrCreateThrown, "undefined")
          /\ pending' = pending
    /\ UNCHANGED <<fnVars, sideVars, kind, files, cancelling, cbThrows, ctxVars, zipVars, multiVars>>

\* deployWorkspace(files, target, opts) up to the call of createContext, which
\* throws or returns a promise (ZipFileDeployPluginBase.createContext always
\* returns one)
CtxDeployWorkspace ==
    /\ arg.fn = "none"
    /\ CtxDeployWorkspaceOf(files)

\* MultiFileDeployPluginBase.deployFile(file, target, opts) of a plugin with
\* a context: this.deployWorkspace([ file ], target, ..) with an onCompleted
\* that raises the file-level onCompleted, and without an onFileCompleted
MultiFileDeployFile ==
    /\ arg.fn = "deployFile"
    /\ CtxDeployWorkspaceOf(<<arg.file>>)

\* a rejection handler that completes without the error: .catch(() => completed())
CtxContextRejectedNoError ==
    /\ kind = "ctx"
    /\ run.fn = "none"
    /\ pending.what = "create"
    /\ Completed(Append(log, Ev("contextFailed", "-", ErrCreate, "undefined")), "undefined", "undefined")
    /\ pending' = NoPending
    /\ UNCHANGED <<fnVars, sideVars, kind, files, cancelling, started, cbThrows, ctxVars, zipVars, multiVars>>

\* the createContext promise rejects: .catch((err) => completed(err))
CtxContextRejected ==
    /\ kind = "ctx"
    /\ run.fn = "none"
    /\ pending.what = "create"
    /\ Completed(Append(log, Ev("contextFailed", "-", ErrCreate, "undefined")), ErrCreate, "undefined")
    /\ pending' = NoPending
    /\ UNCHANGED <<fnVars, sideVars, kind, files, cancelling, started, cbThrows, ctxVars, zipVars, multiVars>>

\* the createContext promise resolves with a wrapper, with or without a
\* destroy operation (the ZIP wrapper has one): the .then callback starts with
\* the first file
CtxContextResolved ==
    /\ IsCtx
    /\ run.fn = "none"
    /\ pending.what = "create"
    /\ \E d \in BOOLEAN :
          /\ kind = "zip" => d
          /\ wrapper' = [destroy |-> d]
    /\ pending' = NoPending
    /\ task' = "then"
    /\ run' = Fn("deployNext", "-", "undefined", "undefined")
    /\ log' = Append(log, Ev("contextCreated", "-", "undefined", "undefined"))
    /\ UNCHANGED <<fnVars, sideVars, kind, files, filesTodo, cancelling, started, cbThrows, stack, saved, zipVars, multiVars>>

\* a deployNext that takes the queue's last file: filesTodo.pop()
CtxDeployNextPop ==
    /\ IsCtx
    /\ run.fn = "deployNext"
    /\ IF Len(filesTodo) < 1
         THEN DestroyContext(log, "undefined", "undefined")
         ELSE LET f == filesTodo[Len(filesTodo)] IN
              /\ filesTodo' = SubSeq(filesTodo, 1, Len(filesTodo) - 1)
              /\ log' = Append(log, Ev("deployFileWithContext", f, "undefined", "undefined"))
              /\ UNCHANGED <<wrapper, saved, zipVars>>
              /\ \/ \E o \in SyncOutcomes :
                      /\ run' = Fn("fileCompleted", f, o.error, o.canceled)
                      /\ stack' = Append(stack, f)
                      /\ UNCHANGED <<pending, task>>
                 \/ /\ MayThrow
                    /\ run' = Fn("fileCompleted", f, ErrThrown, "undefined")
                    /\ UNCHANGED <<pending, task, stack>>
                 \/ /\ MayDefer
                    /\ run' = Idle
                    /\ pending' = Pending("file", f)
                    /\ stack' = <<>>
                    /\ task' = "none"
    /\ UNCHANGED <<fnVars, sideVars, kind, files, cancelling, started, cbThrows, multiVars>>

\* a deployNext that does not wait for a file that reports later
CtxDeployNextNoWait ==
    /\ IsCtx
    /\ run.fn = "deployNext"
    /\ IF Len(filesTodo) < 1
         THEN DestroyContext(log, "undefined", "undefined")
         ELSE LET f == Head(filesTodo) IN
              /\ filesTodo' = Tail(filesTodo)
              /\ log' = Append(log, Ev("deployFileWithContext", f, "undefined", "undefined"))
              /\ UNCHANGED <<wrapper, saved, zipVars>>
              /\ \/ \E o \in SyncOutcomes :
                      /\ run' = Fn("fileCompleted", f, o.error, o.canceled)
                      /\ stack' = Append(stack, f)
                      /\ UNCHANGED <<pending, task>>
                 \/ /\ MayThrow
                    /\ run' = Fn("fileCompleted", f, ErrThrown, "undefined")
                    /\ UNCHANGED <<pending, task, stack>>
                 \/ /\ MayDefer
                    /\ run' = IF Len(filesTodo) > 1 THEN Fn("deployNext", "-", "undefined", "undefined") ELSE Idle
                    /\ pending' = Pending("file", f)
                    /\ stack' = <<>>
                    /\ task' = "none"
    /\ UNCHANGED <<fnVars, sideVars, kind, files, cancelling, started, cbThrows, multiVars>>

\* deployNext: tears down when the queue is empty, else takes its head and
\* dispatches it to deployFileWithContext.  The backend reports synchronously
\* (the call is then on the stack while fileCompleted runs), throws (catch:
\* fileCompleted(currentFile, e)), or reports later (every caller returns).
CtxDeployNext ==
    /\ IsCtx
    /\ run.fn = "deployNext"
    /\ IF Len(filesTodo) < 1
         THEN DestroyContext(log, "undefined", "undefined")
         ELSE LET f == Head(filesTodo) IN
              /\ filesTodo' = Tail(filesTodo)
              /\ log' = Append(log, Ev("deployFileWithContext", f, "undefined", "undefined"))
              /\ UNCHANGED <<wrapper, saved, zipVars>>
              /\ \/ \E o \in SyncOutcomes :
                      /\ run' = Fn("fileCompleted", f, o.error, o.canceled)
                      /\ stack' = Append(stack, f)
                      /\ UNCHANGED <<pending, task>>
                 \/ /\ MayThrow
                    /\ run' = Fn("fileCompleted", f, ErrThrown, "undefined")
                    /\ UNCHANGED <<pending, task, stack>>
                 \/ /\ MayDefer
                    /\ run' = Idle
                    /\ pending' = Pending("file", f)
                    /\ stack' = <<>>
                    /\ task' = "none"
    /\ UNCHANGED <<fnVars, sideVars, kind, files, cancelling, started, cbThrows, multiVars>>

\* the backend's asynchronous onCompleted for the file in flight.  The ZIP
\* backend adds the entry first, and what the completion throws comes back
\* into its catch block (completed(e)): its callback is on the stack.
CtxFileCompletesAsync ==
    /\ IsCtx
    /\ run.fn = "none"
    /\ pending.what = "file"
    /\ \E o \in AsyncOutcomes :
          /\ run' = Fn("fileCompleted", pending.file, o.error, o.canceled)
          /\ archive' = IF o.added THEN Append(archive, pending.file) ELSE archive
          /\ stack' = IF o.added THEN <<pending.file>> ELSE <<>>
    /\ pending' = NoPending
    /\ task' = "async"
    /\ UNCHANGED <<fnVars, sideVars, kind, files, filesTodo, cancelling, started, log, cbThrows, wrapper, saved, sink, fs, multiVars>>

\* a fileCompleted that completes a canceled run without the teardown, as
\* DeployPluginBase does: completed(null, true)
CtxFileCompletedNoTeardownOnCancel ==
    /\ IsCtx
    /\ run.fn = "fileCompleted"
    /\ LET l == Append(log, Ev("onFileCompleted", run.file, run.error, run.canceled)) IN
       \/ /\ arg.fn = "none"
          /\ cbThrows < MaxCallbackThrows
          /\ cbThrows' = cbThrows + 1
          /\ log' = l
          /\ run' = Fn("unwind", "-", ErrCallback, "undefined")
          /\ UNCHANGED <<filesTodo, pending, ctxVars, zipVars>>
       \/ /\ cbThrows' = cbThrows
          /\ IF ToBooleanSafe(run.canceled)
               THEN /\ Completed(l, "null", "true")
                    /\ UNCHANGED <<pending, ctxVars, zipVars>>
               ELSE /\ log' = l
                    /\ run' = Fn("deployNext", "-", "undefined", "undefined")
                    /\ UNCHANGED <<filesTodo, pending, ctxVars, zipVars>>
    /\ UNCHANGED <<fnVars, sideVars, kind, files, cancelling, started, multiVars>>

\* fileCompleted(file, err, canceled): raises onFileCompleted (which may
\* throw: nothing here catches it; deployFile passes no onFileCompleted),
\* then tears down as canceled or moves on
CtxFileCompleted ==
    /\ IsCtx
    /\ run.fn = "fileCompleted"
    /\ LET l == Append(log, Ev("onFileCompleted", run.file, run.error, run.canceled)) IN
       \/ /\ arg.fn = "none"
          /\ cbThrows < MaxCallbackThrows
          /\ cbThrows' = cbThrows + 1
          /\ log' = l
          /\ run' = Fn("unwind", "-", ErrCallback, "undefined")
          /\ UNCHANGED <<filesTodo, pending, ctxVars, zipVars>>
       \/ /\ cbThrows' = cbThrows
          /\ IF ToBooleanSafe(run.canceled)
               THEN DestroyContext(l, "null", "true")
               ELSE /\ log' = l
                    /\ run' = Fn("deployNext", "-", "undefined", "undefined")
                    /\ UNCHANGED <<filesTodo, pending, ctxVars, zipVars>>
    /\ UNCHANGED <<fnVars, sideVars, kind, files, cancelling, started, multiVars>>

\* a .then callback whose catch block completes without the teardown:
\* catch (e) { completed(e) }
CtxUnwindNoTeardown ==
    /\ IsCtx
    /\ run.fn = "unwind"
    /\ IF stack # <<>>
         THEN /\ run' = Fn("fileCompleted", stack[Len(stack)], run.error, "undefined")
              /\ stack' = SubSeq(stack, 1, Len(stack) - 1)
              /\ UNCHANGED <<filesTodo, log, pending, task, wrapper, saved, zipVars>>
         ELSE IF task = "then"
                THEN /\ Completed(log, run.error, "undefined")
                     /\ task' = "none"
                     /\ UNCHANGED <<pending, stack, wrapper, saved, zipVars>>
                ELSE /\ log' = Append(log, Ev("uncaught", "-", run.error, "undefined"))
                     /\ run' = Idle
                     /\ task' = "none"
                     /\ UNCHANGED <<filesTodo, pending, stack, wrapper, saved, zipVars>>
    /\ UNCHANGED <<fnVars, sideVars, kind, files, cancelling, started, cbThrows, multiVars>>

\* an exception on its way up the call stack.  It leaves the innermost
\* backend call that is still running and is caught there:
\* fileCompleted(currentFile, e).  With no such call left it is caught by the
\* .then callback (destroyContext(wrapper, e)) or, in a backend's
\* asynchronous callback, by nothing in this code.
CtxUnwind ==
    /\ IsCtx
    /\ run.fn = "unwind"
    /\ IF stack # <<>>
         THEN /\ run' = Fn("fileCompleted", stack[Len(stack)], run.error, "undefined")
              /\ stack' = SubSeq(stack, 1, Len(stack) - 1)
              /\ UNCHANGED <<filesTodo, log, pending, task, wrapper, saved, zipVars>>
         ELSE IF task = "then"
                THEN DestroyContext(log, run.error, "undefined")
                ELSE /\ log' = Append(log, Ev("uncaught", "-", run.error, "undefined"))
                     /\ run' = Idle
                     /\ task' = "none"
                     /\ UNCHANGED <<filesTodo, pending, stack, wrapper, saved, zipVars>>
    /\ UNCHANGED <<fnVars, sideVars, kind, files, cancelling, started, cbThrows, multiVars>>

\* a destroy whose rejection becomes the error of onCompleted:
\* .catch((e) => completed(e, canceled))
CtxDestroySettlesSurfaces ==
    /\ IsCtx
    /\ run.fn = "none"
    /\ pending.what = "destroy"
    /\ \/ /\ kind = "zip" => sink.pc = "resolved"
          /\ Completed(log, saved.error, saved.canceled)
       \/ /\ kind = "zip" => sink.pc = "rejected"
          /\ LET e == IF kind = "zip" THEN sink.error ELSE ErrDestroy IN
             Completed(log \o <<Ev("destroyFailed", "-", e, "undefined"), Ev("log", "-", e, "undefined")>>, e, saved.canceled)
    /\ pending' = NoPending
    /\ UNCHANGED <<fnVars, sideVars, kind, files, cancelling, started, cbThrows, ctxVars, zipVars, multiVars>>

\* the destroy promise settles: .then(() => completed(..)) or
\* .catch((e) => { log(e); completed(..) }), both with the saved arguments.
\* The ZIP wrapper's promise settles as deployZipFile's `completed` says.
CtxDestroySettles ==
    /\ IsCtx
    /\ run.fn = "none"
    /\ pending.what = "destroy"
    /\ \/ /\ kind = "zip" => sink.pc = "resolved"
          /\ Completed(log, saved.error, saved.canceled)
       \/ /\ kind = "zip" => sink.pc = "rejected"
          /\ LET e == IF kind = "zip" THEN sink.error ELSE ErrDestroy IN
             Completed(log \o <<Ev("destroyFailed", "-", e, "undefined"), Ev("log", "-", e, "undefined")>>, saved.error, saved.canceled)
    /\ pending' = NoPending
    /\ UNCHANGED <<fnVars, sideVars, kind, files, cancelling, started, cbThrows, ctxVars, zipVars, multiVars>>

NextCtx ==
    \/ CtxDeployWorkspace
    \/ CtxContextRejected
    \/ CtxContextResolved
    \/ CtxDeployNext
    \/ CtxFileCompletesAsync
    \/ CtxFileCompleted
    \/ CtxUnwind
    \/ CtxDestroySettles
    \/ Cancel

SpecCtx == InitCtx /\ [][NextCtx]_vars

\* the steps of a context workflow other than the user's cancellation
CtxProgress ==
    \/ CtxDeployWorkspace
    \/ CtxContextRejected
    \/ CtxContextResolved
    \/ CtxDeployNext
    \/ CtxFileCompletesAsync
    \/ CtxFileCompleted
    \/ CtxUnwind
    \/ CtxDestroySettles

\* A started task runs to its end, and every promise and backend callback
\* the workflow waits for is settled at some time.
FairSpecCtx == SpecCtx /\ WF_vars(CtxProgress)

\* the two queue workflows side by side
SpecQueues == (InitBase \/ InitCtx) /\ [][NextBase \/ NextCtx]_vars

\* ------------------------------------------------------------ ZIPPlugin

InitZip ==
    /\ InitNoSide
    /\ kind = "zip"
    /\ files \in SeqsUpTo(Files, MaxFiles)
    /\ filesTodo = <<>>
    /\ cancelling \in BOOLEAN
    /\ started = FALSE
    /\ log = <<>>
    /\ run = Idle
    /\ pending = NoPending
    /\ cbThrows = 0
    /\ InitNoFn
    /\ InitNoMulti
    /\ InitNoCtx
    /\ archive = <<>>
    /\ sink = NoSink
    /\ fs \in [dir : {"missing", "dir", "file"}, zip : {NoZipFiles, [NoZipFiles EXCEPT ![1] = "old"]}]

\* the plugins whose sink is ZIPPlugin.deployZipFile: the ZIP plugin's
\* workspace deploy and deployZipFile called on its own, once at a time or
\* twice at once
HasSink == kind \in {"zip", "sink", "sinks"}

\* deployZipFile's `completed`: rejects with the error or resolves
SinkCompleted(err) == sink' = [sink EXCEPT !.pc = IF err = "undefined" THEN "resolved" ELSE "rejected", !.error = err]

\* the sink issues a file system operation and waits for its answer
SinkIssues(op, pc) == sink' = [sink EXCEPT !.pc = pc, !.ops = Append(@, op)]

\* FS.exists(targetDir) answers: checkIfDirectory() (FS.lstat) when it
\* exists, else FSExtra.mkdirs(targetDir)
ZipDirExists ==
    /\ HasSink
    /\ run.fn = "none"
    /\ sink.pc = "existsDir"
    /\ IF fs.dir # "missing" THEN SinkIssues("FS.lstat", "lstat") ELSE SinkIssues("FSExtra.mkdirs", "mkdirs")
    /\ UNCHANGED <<fnVars, sideVars, kind, files, filesTodo, cancelling, started, log, run, pending, cbThrows, ctxVars, archive, fs, multiVars>>

\* FSExtra.mkdirs answers: an error rejects, else the directory is there and
\* checkIfDirectory() follows
ZipMkdirs ==
    /\ HasSink
    /\ run.fn = "none"
    /\ sink.pc = "mkdirs"
    /\ \/ SinkCompleted(ErrMkdirs) /\ fs' = fs
       \/ /\ SinkIssues("FS.lstat", "lstat")
          /\ fs' = [fs EXCEPT !.dir = "dir"]
    /\ UNCHANGED <<fnVars, sideVars, kind, files, filesTodo, cancelling, started, log, run, pending, cbThrows, ctxVars, archive, multiVars>>

\* a checkIfDirectory that does not ask stats.isDirectory()
ZipLstatAnyPath ==
    /\ HasSink
    /\ run.fn = "none"
    /\ sink.pc = "lstat"
    /\ \/ SinkCompleted(ErrLstat)
       \/ SinkIssues("FS.exists(zipFile)", "existsZip")
    /\ UNCHANGED <<fnVars, sideVars, kind, files, filesTodo, cancelling, started, log, run, pending, cbThrows, ctxVars, archive, fs, multiVars>>

\* FS.lstat answers: an error rejects; a directory leads to
\* FS.exists(zipFile); anything else rejects as no directory
ZipLstat ==
    /\ HasSink
    /\ run.fn = "none"
    /\ sink.pc = "lstat"
    /\ \/ SinkCompleted(ErrLstat)
       \/ IF fs.dir = "dir"
            THEN SinkIssues("FS.exists(zipFile)", "existsZip")
            ELSE SinkCompleted(ErrNoDirectory)
    /\ UNCHANGED <<fnVars, sideVars, kind, files, filesTodo, cancelling, started, log, run, pending, cbThrows, ctxVars, archive, fs, multiVars>>

\* a sink that overwrites an existing file
ZipFileExistsOverwrites ==
    /\ HasSink
    /\ run.fn = "none"
    /\ sink.pc = "existsZip"
    /\ \/ SinkIssues("FS.writeFile", "write")
       \/ SinkCompleted(ErrGenerate)
    /\ UNCHANGED <<fnVars, sideVars, kind, files, filesTodo, cancelling, started, log, run, pending, cbThrows, ctxVars, archive, fs, multiVars>>

\* FS.exists(zipFile) answers: an existing file rejects, else deploy(zipFile)
\* generates the archive's bytes, which may throw (catch: completed(e)), and
\* calls FS.writeFile
ZipFileExists ==
    /\ HasSink
    /\ run.fn = "none"
    /\ sink.pc = "existsZip"
    /\ IF fs.zip[sink.now] # "none"
         THEN SinkCompleted(ErrFileExists)
         ELSE \/ SinkIssues("FS.writeFile", "write")
              \/ SinkCompleted(ErrGenerate)
    /\ UNCHANGED <<fnVars, sideVars, kind, files, filesTodo, cancelling, started, log, run, pending, cbThrows, ctxVars, archive, fs, multiVars>>

\* what a call of deployZipFile writes into its file
ContentOf(call) == IF call = 1 THEN "new" ELSE "newer"

\* FS.writeFile answers: an error rejects; else the file holds the archive
\* and the promise resolves
ZipWriteFile ==
    /\ HasSink
    /\ run.fn = "none"
    /\ sink.pc = "write"
    /\ \/ SinkCompleted(ErrWrite) /\ fs' = fs
       \/ /\ SinkCompleted("undefined")
          /\ fs' = [fs EXCEPT !.zip[sink.now] = ContentOf(sink.call)]
    /\ UNCHANGED <<fnVars, sideVars, kind, files, filesTodo, cancelling, started, log, run, pending, cbThrows, ctxVars, archive, multiVars>>

NextZip ==
    \/ CtxDeployWorkspace
    \/ CtxContextResolved
    \/ CtxDeployNext
    \/ CtxFileCompletesAsync
    \/ CtxFileCompleted
    \/ CtxUnwind
    \/ CtxDestroySettles
    \/ Cancel
    \/ ZipDirExists
    \/ ZipMkdirs
    \/ ZipLstat
    \/ ZipFileExists
    \/ ZipWriteFile

SpecZip == InitZip /\ [][NextZip]_vars

\* ------------------------------------------- MultiTargetDeployPluginBase

\* an entry of the fan-out's trace
MEv(ev, target, plugin, fs_, error, canceled) == [ev |-> ev, target |-> target, plugin |-> plugin, files |-> fs_, error |-> error, canceled |-> canceled]

\* the resolved targets createContext(target) may return: a target with the
\* plugins that match it
TargetConfigs == {[target |-> "A", plugins |-> <<"P1">>], [target |-> "B", plugins |-> <<"P1", "P2">>], [target |-> "C", plugins |-> <<>>]}

\* what a plugin's deployWorkspace reports in its onCompleted
PluginOutcomes == {[error |-> "undefined", canceled |-> "undefined"], [error |-> ErrDeploy, canceled |-> "undefined"], [error |-> "null", canceled |-> "true"]}

\* the file lists handed to the fan-out
MultiFiles == {<<"a", "b">>, <<"b">>}

InitMulti ==
    /\ InitNoSide
    /\ kind = "multi"
    /\ files \in MultiFiles
    /\ targets \in SeqsUpTo(TargetConfigs, MaxTargets)
    /\ targetsTodo = <<>>
    /\ pluginsTodo = <<>>
    /\ currentTarget = "-"
    /\ filesTodo = <<>>
    /\ cancelling \in BOOLEAN
    /\ started = FALSE
    /\ log = <<>>
    /\ run = Idle
    /\ pending = NoPending
    /\ cbThrows = 0
    /\ InitNoFn
    /\ InitNoCtx
    /\ InitNoZip

\* `completed` of MultiTargetDeployPluginBase.deployWorkspace: drops the
\* targets still to do and raises onCompleted, which has no error field
MultiCompleted(l, err, canceled) ==
    /\ targetsTodo' = <<>>
    /\ log' = Append(l, MEv("onCompleted", "-", "-", <<>>, "undefined", canceled))
    /\ run' = Idle

\* deployWorkspace(files, target, opts) up to its call of deployNextTarget
MultiDeployWorkspace ==
    /\ kind = "multi"
    /\ ~started
    /\ started' = TRUE
    /\ targetsTodo' = targets
    /\ run' = Fn("deployNextTarget", "-", "undefined", "undefined")
    /\ log' = Append(log, MEv("deployWorkspace", "-", "-", files, "undefined", IF cancelling THEN "true" ELSE "false"))
    /\ UNCHANGED <<fnVars, sideVars, kind, files, filesTodo, cancelling, pending, cbThrows, ctxVars, zipVars, targets, pluginsTodo, currentTarget>>

\* deployNextTarget: completes when no target is left, completes as canceled
\* when cancellation is requested, else takes the next target and its plugins
MultiDeployNextTarget ==
    /\ kind = "multi"
    /\ run.fn = "deployNextTarget"
    /\ IF Len(targetsTodo) < 1
         THEN MultiCompleted(log, "undefined", "undefined") /\ UNCHANGED <<pluginsTodo, currentTarget>>
         ELSE IF cancelling
                THEN MultiCompleted(log, "null", "true") /\ UNCHANGED <<pluginsTodo, currentTarget>>
                ELSE /\ currentTarget' = Head(targetsTodo).target
                     /\ pluginsTodo' = Head(targetsTodo).plugins
                     /\ targetsTodo' = Tail(targetsTodo)
                     /\ run' = Fn("deployNextPlugin", "-", "undefined", "undefined")
                     /\ log' = log
    /\ UNCHANGED <<fnVars, sideVars, kind, files, filesTodo, cancelling, started, pending, cbThrows, ctxVars, zipVars, targets>>

\* a deployNextPlugin that does not ask context.isCancelling()
MultiDeployNextPluginNoCancelCheck ==
    /\ kind = "multi"
    /\ run.fn = "deployNextPlugin"
    /\ IF Len(pluginsTodo) < 1
         THEN /\ pluginsTodo' = <<>>
              /\ run' = Fn("deployNextTarget", "-", "undefined", "undefined")
              /\ UNCHANGED <<targetsTodo, log, pending>>
         ELSE LET p == Head(pluginsTodo)
                  l == Append(log, MEv("plugin.deployWorkspace", currentTarget, p, files, "undefined", "undefined"))
              IN  /\ targetsTodo' = targetsTodo
                  /\ \/ \E o \in PluginOutcomes :
                          /\ log' = Append(l, MEv("plugin.onCompleted", currentTarget, p, <<>>, o.error, o.canceled))
                          /\ run' = Fn("deployNextPlugin", "-", "undefined", "undefined")
                          /\ pluginsTodo' = Tail(pluginsTodo)
                          /\ pending' = pending
                     \/ /\ log' = Append(l, MEv("plugin.threw", currentTarget, p, <<>>, ErrThrown, "undefined"))
                        /\ run' = Fn("deployNextTarget", "-", "undefined", "undefined")
                        /\ pluginsTodo' = <<>>
                        /\ pending' = pending
                     \/ /\ log' = l
                        /\ run' = Idle
                        /\ pluginsTodo' = Tail(pluginsTodo)
                        /\ pending' = Pending("plugin", p)
    /\ UNCHANGED <<fnVars, sideVars, kind, files, filesTodo, cancelling, started, cbThrows, ctxVars, zipVars, targets, currentTarget>>

\* deployNextPlugin: with no plugin left targetCompleted() goes to the next
\* target; completes as canceled when cancellation is requested; else takes
\* the next plugin and calls its deployWorkspace with the files and the
\* current target.  The plugin reports synchronously (pluginCompleted calls
\* deployNextPlugin), throws (catch: targetCompleted(e) drops the target's
\* other plugins and goes to the next target), or reports later.
MultiDeployNextPlugin ==
    /\ kind = "multi"
    /\ run.fn = "deployNextPlugin"
    /\ IF Len(pluginsTodo) < 1
         THEN /\ pluginsTodo' = <<>>
              /\ run' = Fn("deployNextTarget", "-", "undefined", "undefined")
              /\ UNCHANGED <<targetsTodo, log, pending>>
         ELSE IF cancelling
                THEN MultiCompleted(log, "null", "true") /\ UNCHANGED <<pluginsTodo, pending>>
                ELSE LET p == Head(pluginsTodo)
                         l == Append(log, MEv("plugin.deployWorkspace", currentTarget, p, files, "undefined", "undefined"))
                     IN  /\ targetsTodo' = targetsTodo
                         /\ \/ \E o \in PluginOutcomes :
                                 /\ log' = Append(l, MEv("plugin.onCompleted", currentTarget, p, <<>>, o.error, o.canceled))
                                 /\ run' = Fn("deployNextPlugin", "-", "undefined", "undefined")
                                 /\ pluginsTodo' = Tail(pluginsTodo)
                                 /\ pending' = pending
                            \/ /\ log' = Append(l, MEv("plugin.threw", currentTarget, p, <<>>, ErrThrown, "undefined"))
                               /\ run' = Fn("deployNextTarget", "-", "undefined", "undefined")
                               /\ pluginsTodo' = <<>>
                               /\ pending' = pending
                            \/ /\ log' = l
                               /\ run' = Idle
                               /\ pluginsTodo' = Tail(pluginsTodo)
                               /\ pending' = Pending("plugin", p)
    /\ UNCHANGED <<fnVars, sideVars, kind, files, filesTodo, cancelling, started, cbThrows, ctxVars, zipVars, targets, currentTarget>>

\* a pluginCompleted that goes on with the next target: targetCompleted()
MultiPluginCompletesAsyncNextTarget ==
    /\ kind = "multi"
    /\ run.fn = "none"
    /\ pending.what = "plugin"
    /\ \E o \in PluginOutcomes :
          log' = Append(log, MEv("plugin.onCompleted", currentTarget, pending.file, <<>>, o.error, o.canceled))
    /\ run' = Fn("deployNextTarget", "-", "undefined", "undefined")
    /\ pending' = NoPending
    /\ UNCHANGED <<fnVars, sideVars, kind, files, filesTodo, cancelling, started, cbThrows, ctxVars, zipVars, targets, targetsTodo, pluginsTodo, currentTarget>>

\* a pluginCompleted that ends the fan-out with a plugin's error:
\* if (err) { completed(err); return; }
MultiPluginCompletesAsyncStopsOnError ==
    /\ kind = "multi"
    /\ run.fn = "none"
    /\ pending.what = "plugin"
    /\ \E o \in PluginOutcomes :
          LET l == Append(log, MEv("plugin.onCompleted", currentTarget, pending.file, <<>>, o.error, o.canceled)) IN
          IF o.error \notin NoErr
            THEN /\ targetsTodo' = <<>>
                 /\ log' = Append(l, MEv("onCompleted", "-", "-", <<>>, o.error, "undefined"))
                 /\ run' = Idle
            ELSE /\ targetsTodo' = targetsTodo
                 /\ log' = l
                 /\ run' = Fn("deployNextPlugin", "-", "undefined", "undefined")
    /\ pending' = NoPending
    /\ UNCHANGED <<fnVars, sideVars, kind, files, filesTodo, cancelling, started, cbThrows, ctxVars, zipVars, targets, pluginsTodo, currentTarget>>

\* a plugin's asynchronous onCompleted: pluginCompleted(e.error, e.canceled)
\* calls deployNextPlugin
MultiPluginCompletesAsync ==
    /\ kind = "multi"
    /\ run.fn = "none"
    /\ pending.what = "plugin"
    /\ \E o \in PluginOutcomes :
          log' = Append(log, MEv("plugin.onCompleted", currentTarget, pending.file, <<>>, o.error, o.canceled))
    /\ run' = Fn("deployNextPlugin", "-", "undefined", "undefined")
    /\ pending' = NoPending
    /\ UNCHANGED <<fnVars, sideVars, kind, files, filesTodo, cancelling, started, cbThrows, ctxVars, zipVars, targets, targetsTodo, pluginsTodo, currentTarget>>

\* the running plugin raises onFileCompleted for one of the files: the
\* forwarder passes canceled, file and target on to the caller's
\* onFileCompleted, with itself as the sender
MultiPluginFileCompleted ==
    /\ kind = "multi"
    /\ run.fn = "none"
    /\ pending.what = "plugin"
    /\ Cardinality({i \in DOMAIN log : log[i].ev = "plugin.onFileCompleted"}) < MaxReports
    /\ \E i \in DOMAIN files : \E o \in Outcomes :
          log' = log \o <<MEv("plugin.onFileCompleted", currentTarget, pending.file, <<files[i]>>, o.error, o.canceled),
                          MEv("onFileCompleted", currentTarget, "-", <<files[i]>>, "undefined", o.canceled)>>
    /\ UNCHANGED <<fnVars, sideVars, kind, files, filesTodo, cancelling, started, run, pending, cbThrows, ctxVars, zipVars, multiVars>>

NextMulti ==
    \/ MultiDeployWorkspace
    \/ MultiDeployNextTarget
    \/ MultiDeployNextPlugin
    \/ MultiPluginCompletesAsync
    \/ MultiPluginFileCompleted
    \/ Cancel

SpecMulti == InitMulti /\ [][NextMulti]_vars

\* ------------------------------------------------------------ the trace

\* the positions of the trace that hold an event named ev
Idx(ev) == {i \in DOMAIN log : log[i].ev = ev}

Count(ev) == Cardinality(Idx(ev))

\* the positions at which a file was handed to the backend
Dispatches == Idx("deployFile") \cup Idx("deployFileWithContext")

\* the files handed to the backend, in the order of the calls
DispatchedFiles ==
    LET d == SelectSeq(log, LAMBDA e : e.ev \in {"deployFile", "deployFileWithContext"})
    IN  [i \in DOMAIN d |-> d[i].file]

IsPrefix(s, t) == Len(s) <= Len(t) /\ \A i \in DOMAIN s : s[i] = t[i]

\* between two dispatches the first one's file has completed
OneAtATime ==
    \A i \in Dispatches : \A j \in Dispatches :
        i < j => \E k \in Idx("onFileCompleted") : i < k /\ k < j /\ log[k].file = log[i].file

\* neither context.isCancelling() nor a file's completion says canceled
NoCancellation == ~cancelling /\ \A i \in Idx("onFileCompleted") : ~ToBooleanSafe(log[i].canceled)

\* a task is running or an asynchronous result is awaited
Going == run.fn # "none" \/ pending.what # "none"

\* ------------------------------------------------------------ the claims

\* C1: DeployPluginBase.deployWorkspace, for every list of paths (the empty
\* path included), with no cancellation and callbacks that return: deployFile
\* is called once per element in input order, each call after the previous
\* file's completion, and exactly one onCompleted (no error, not canceled)
\* fires, after the last file's completion.
C1_EveryFileOnceInOrder ==
    (kind = "base" /\ NoCancellation /\ cbThrows = 0) =>
        /\ IsPrefix(DispatchedFiles, files)
        /\ OneAtATime
        /\ Count("onCompleted") <= 1
        /\ (started /\ Count("onCompleted") = 0) => Going
        /\ Count("onCompleted") = 1 =>
              /\ DispatchedFiles = files
              /\ Count("onFileCompleted") = Len(files)
              /\ log[Len(log)].ev = "onCompleted"
              /\ log[Len(log)].error \in NoErr
              /\ ~ToBooleanSafe(log[Len(log)].canceled)

\* C2: DeployPluginWithContextBase.deployWorkspace invokes the wrapper's
\* destroy at most once, only after createContext resolved, and before
\* onCompleted fires: no onCompleted precedes it, and a run whose wrapper has
\* a destroy does not complete without it.
C2_DestroyOnceBeforeCompleted ==
    /\ Count("destroy") <= 1
    /\ \A i \in Idx("destroy") :
          /\ \E j \in Idx("contextCreated") : j < i
          /\ \A k \in Idx("onCompleted") : i < k
    /\ (Count("contextCreated") = 1 /\ wrapper.destroy /\ Count("onCompleted") >= 1) => Count("destroy") = 1

\* a run whose context was torn down after an exception of the caller's
\* onFileCompleted, with a destroy that was invoked and has settled
C2_Witness ==
    /\ kind = "ctx"
    /\ Count("destroy") = 1
    /\ Count("onCompleted") = 1
    /\ Count("deployFileWithContext") = MaxFiles

\* what C3 says of every state: one teardown at most, no file operation
\* after it began, and no completion of a created context without it
C3_Safety ==
    /\ Count("destroyContext") <= 1
    /\ \A i \in Idx("destroyContext") : \A j \in Dispatches : j < i
    /\ (Count("contextCreated") = 1 /\ Count("onCompleted") >= 1) => Count("destroyContext") = 1

\* C3: once createContext has resolved, teardown (destroyContext) runs, and
\* runs once, whether the queue empties, a file reports canceled or an
\* exception is caught during dispatch -- unless an exception leaves a
\* backend's asynchronous callback uncaught, which ends the run without an
\* exit; after teardown began no deployFileWithContext call is made.
C3_TeardownOnce ==
    /\ []C3_Safety
    /\ (Count("contextCreated") = 1) ~> (Count("destroyContext") = 1 \/ Count("uncaught") = 1)

\* a teardown that the .then callback's catch block started
C3_Witness ==
    /\ \E i \in Idx("destroyContext") : log[i].error = ErrCallback
    /\ Count("deployFileWithContext") >= 1
    /\ Count("onCompleted") = 1

\* C4: DeployPluginWithContextBase.deployWorkspace, with no cancellation and
\* callbacks that return: deployFileWithContext is called once per file in
\* input order, one at a time, after createContext resolved and before the
\* teardown, and exactly one onCompleted fires, after the last file.
C4_EveryFileOnceInOrder ==
    (kind = "ctx" /\ NoCancellation /\ cbThrows = 0) =>
        /\ IsPrefix(DispatchedFiles, files)
        /\ OneAtATime
        /\ \A i \in Dispatches :
              /\ \E j \in Idx("contextCreated") : j < i
              /\ \A d \in Idx("destroyContext") \cup Idx("destroy") : i < d
        /\ Count("onCompleted") <= 1
        /\ (started /\ Count("onCompleted") = 0) => Going
        /\ (Count("onCompleted") = 1 /\ Count("contextCreated") = 1) =>
              /\ DispatchedFiles = files
              /\ Count("onFileCompleted") = Len(files)
              /\ log[Len(log)].ev = "onCompleted"

\* a completed run over MaxFiles files, the empty path among them
C4_Witness ==
    /\ kind = "ctx"
    /\ NoCancellation
    /\ cbThrows = 0
    /\ Count("onCompleted") = 1
    /\ Len(files) = MaxFiles
    /\ DispatchedFiles = files
    /\ \E i \in DOMAIN files : files[i] = ""
    /\ Count("destroy") = 1

\* C5: when createContext throws or its promise rejects, no
\* deployFileWithContext call is made, no teardown and no destroy happens, and
\* exactly one onCompleted fires, carrying that error.
C5_CreateFailureCompletes ==
    \A i \in Idx("contextFailed") :
        /\ Count("deployFileWithContext") = 0
        /\ Count("destroy") = 0
        /\ Count("destroyContext") = 0
        /\ Count("onCompleted") = 1
        /\ \A k \in Idx("onCompleted") : log[k].error = log[i].error /\ ~ToBooleanSafe(log[k].canceled)

\* a rejected createContext promise for a non-empty file list
C5_Witness ==
    /\ \E i \in Idx("contextFailed") : log[i].error = ErrCreate
    /\ files # <<>>

\* C6: in both workflows, with callbacks that return: after a file's
\* completion with an error and no canceled flag the next queued file is
\* dispatched; after a completion with canceled = true no file is dispatched
\* any more and onCompleted fires with canceled = true and no error.
C6_ErrorGoesOnCancelStops ==
    cbThrows = 0 =>
        \A i \in Idx("onFileCompleted") :
            IF ToBooleanSafe(log[i].canceled)
              THEN /\ \A j \in Dispatches : j < i
                   /\ \A k \in Idx("onCompleted") : log[k].canceled = "true" /\ log[k].error \in NoErr
                   /\ Count("onCompleted") = 0 => Going
              ELSE (log[i].error \notin NoErr /\ Cardinality({j \in Dispatches : j < i}) < Len(files)) =>
                      IF i < Len(log)
                        THEN /\ log[i + 1].ev \in {"deployFile", "deployFileWithContext"}
                             /\ log[i + 1].file = files[Cardinality({j \in Dispatches : j < i}) + 1]
                        ELSE run.fn \in {"deployNextFile", "deployNext"}

\* C7: if context.isCancelling() is true when deployWorkspace is called, the
\* run consists of exactly one onCompleted with canceled = true and no error:
\* no file operation, no createContext, no destroy.
C7_CancelledAtStart ==
    (started /\ log[1].canceled = "true") =>
        /\ Len(log) = 2
        /\ log[2].ev = "onCompleted"
        /\ log[2].canceled = "true"
        /\ log[2].error \in NoErr
        /\ ~Going

\* a context workflow called with files while cancellation is requested
C7_Witness ==
    /\ kind = "ctx"
    /\ started
    /\ log[1].canceled = "true"
    /\ Len(files) = MaxFiles
    /\ Count("onCompleted") = 1

\* C8: ZIP plugin: when deployZipFile fails (no directory, file exists,
\* mkdirs, lstat or write error) the workspace-level onCompleted carries that
\* error.
C8_SinkErrorReported ==
    \A i \in Idx("destroyFailed") : \A k \in Idx("onCompleted") : log[k].error = log[i].error

\* C9: when destroy throws or its promise rejects, the failure is logged and
\* onCompleted fires exactly once with the (error, canceled) pair
\* destroyContext was called with; the destroy failure is not its error.
C9_DestroyFailureLogged ==
    \A i \in Idx("destroyFailed") :
        /\ log[i + 1] = Ev("log", "-", log[i].error, "undefined")
        /\ Count("onCompleted") = 1
        /\ \A k \in Idx("onCompleted") : \A j \in Idx("destroyContext") :
              /\ j < i /\ i < k
              /\ log[k].error = log[j].error
              /\ log[k].canceled = log[j].canceled
              /\ log[k].error # log[i].error

\* a rejected destroy at the end of a run that a file had canceled
C9_Witness ==
    /\ Count("destroyFailed") = 1
    /\ \E j \in Idx("destroyContext") : log[j].canceled = "true"
    /\ pending.what = "none"

\* the (target, plugin) pairs of the resolved targets, in resolved order
RECURSIVE PairsOf(_)
PairsOf(ts) ==
    IF ts = <<>>
      THEN <<>>
      ELSE [i \in 1..Len(Head(ts).plugins) |-> <<Head(ts).target, Head(ts).plugins[i]>>] \o PairsOf(Tail(ts))

\* the pairs whose deployWorkspace was invoked, in the order of the calls
InvokedPairs ==
    LET d == SelectSeq(log, LAMBDA e : e.ev = "plugin.deployWorkspace")
    IN  [i \in DOMAIN d |-> <<d[i].target, d[i].plugin>>]

\* C10: MultiTargetDeployPluginBase.deployWorkspace, with no cancellation and
\* plugins that report their completion (none throws): every (target, plugin)
\* pair's deployWorkspace is invoked once, with the full file list and that
\* target, in target order and within a target in plugin order, each pair
\* after the previous pair's onCompleted; then exactly one onCompleted fires.
C10_FanOutInOrder ==
    (kind = "multi" /\ ~cancelling /\ Count("plugin.threw") = 0) =>
        /\ IsPrefix(InvokedPairs, PairsOf(targets))
        /\ \A i \in Idx("plugin.deployWorkspace") : log[i].files = files
        /\ \A i \in Idx("plugin.deployWorkspace") : \A j \in Idx("plugin.deployWorkspace") :
              i < j => \E k \in Idx("plugin.onCompleted") :
                          i < k /\ k < j /\ log[k].target = log[i].target /\ log[k].plugin = log[i].plugin
        /\ Count("onCompleted") <= 1
        /\ (started /\ Count("onCompleted") = 0) => Going
        /\ Count("onCompleted") = 1 =>
              /\ InvokedPairs = PairsOf(targets)
              /\ Count("plugin.onCompleted") = Len(InvokedPairs)
              /\ log[Len(log)].ev = "onCompleted"
              /\ ~ToBooleanSafe(log[Len(log)].canceled)

\* a completed fan-out over MaxTargets targets, one of them with two plugins
C10_Witness ==
    /\ kind = "multi"
    /\ ~cancelling
    /\ Count("plugin.threw") = 0
    /\ Count("onCompleted") = 1
    /\ Len(targets) = MaxTargets
    /\ Len(InvokedPairs) > MaxTargets

\* deployNextTarget or deployNextPlugin is about to ask context.isCancelling():
\* there is a next target, or a next plugin, to start
MultiCheckpoint ==
    \/ run.fn = "deployNextTarget" /\ Len(targetsTodo) >= 1
    \/ run.fn = "deployNextPlugin" /\ Len(pluginsTodo) >= 1

\* C11: MultiTargetDeployPluginBase.deployWorkspace asks
\* context.isCancelling() before it starts a target and before it starts a
\* plugin: no plugin's deployWorkspace is invoked in a step that finds it
\* true; the step that finds it true raises onCompleted with canceled = true
\* and ends the run; and after onCompleted nothing more is invoked or raised.
C11_CancelEndsFanOut ==
    [][kind = "multi" =>
          /\ Count("plugin.deployWorkspace")' > Count("plugin.deployWorkspace") => (MultiCheckpoint /\ ~cancelling)
          /\ (MultiCheckpoint /\ cancelling) =>
                /\ log' = Append(log, MEv("onCompleted", "-", "-", <<>>, "undefined", "true"))
                /\ run' = Idle
                /\ pending' = NoPending
          /\ Count("onCompleted") >= 1 => (log' = log /\ run' = Idle /\ pending' = NoPending)]_vars

\* a fan-out that was canceled after its first plugin, with pairs left over
C11_Witness ==
    /\ kind = "multi"
    /\ Count("plugin.onCompleted") >= 1
    /\ Count("plugin.deployWorkspace") < Len(PairsOf(targets))
    /\ \E k \in Idx("onCompleted") : log[k].canceled = "true"

\* the number of plugin deployWorkspace calls before position i of the trace
InvokedBefore(i) == Cardinality({j \in Idx("plugin.deployWorkspace") : j < i})

\* C12: MultiTargetDeployPluginBase.deployWorkspace, with no cancellation and
\* no plugin that throws: after a plugin's onCompleted with an error the next
\* (target, plugin) pair is invoked, so every remaining plugin and target is
\* reached, and the fan-out's onCompleted comes after all pairs and carries
\* no error.
C12_PluginErrorGoesOn ==
    (kind = "multi" /\ ~cancelling /\ Count("plugin.threw") = 0) =>
        \A i \in Idx("plugin.onCompleted") :
            log[i].error \notin NoErr =>
                /\ InvokedBefore(i) < Len(PairsOf(targets)) =>
                      IF i < Len(log)
                        THEN /\ log[i + 1].ev = "plugin.deployWorkspace"
                             /\ <<log[i + 1].target, log[i + 1].plugin>> = PairsOf(targets)[InvokedBefore(i) + 1]
                        ELSE run.fn \in {"deployNextPlugin", "deployNextTarget"}
                /\ \A k \in Idx("onCompleted") :
                      /\ i < k
                      /\ log[k].error \in NoErr
                      /\ InvokedPairs = PairsOf(targets)

\* a completed fan-out whose first plugin reported an error
C12_Witness ==
    /\ kind = "multi"
    /\ ~cancelling
    /\ Count("onCompleted") = 1
    /\ Len(InvokedPairs) > MaxTargets
    /\ \E i \in Idx("plugin.onCompleted") : log[i].error = ErrDeploy /\ InvokedBefore(i) = 1

\* C13: MultiTargetDeployPluginBase.deployWorkspace forwards an inner
\* plugin's onFileCompleted unchanged: the event the caller's onFileCompleted
\* receives has the file, target, canceled and error the plugin reported.
C13_FileCompletedForwarded ==
    \A i \in Idx("plugin.onFileCompleted") :
        /\ i < Len(log)
        /\ log[i + 1].ev = "onFileCompleted"
        /\ log[i + 1].files = log[i].files
        /\ log[i + 1].target = log[i].target
        /\ log[i + 1].canceled = log[i].canceled
        /\ log[i + 1].error = log[i].error

\* ------------------------------------------- getTargetsWithPlugins

\* how many names a target may list as its other targets
MaxNames == 2

\* A string is the sequence of its characters.
Chars == {"a", "A", "b", " "}

\* String.prototype.toLowerCase
ToLowerCase(s) == [i \in DOMAIN s |-> IF s[i] = "A" THEN "a" ELSE IF s[i] = "B" THEN "b" ELSE s[i]]

\* String.prototype.trim: drops the white space at both ends
RECURSIVE Trim(_)
Trim(s) ==
    IF s = <<>> THEN <<>>
    ELSE IF Head(s) = " " THEN Trim(Tail(s))
    ELSE IF s[Len(s)] = " " THEN Trim(SubSeq(s, 1, Len(s) - 1))
    ELSE s

\* normalizeString of getTargetsWithPlugins
NormalizeString(val) == Trim(ToLowerCase(val))

\* the names a target has or asks for
Names == {<<>>, <<" ">>, <<"a">>, <<"A">>, <<" ", "a">>, <<"A", " ">>, <<"b">>, <<"b", "a">>}

\* context.targets(): two targets are called "a", one has a blank name
KnownTargets ==
    << [name |-> <<"A">>, type |-> <<"a">>],
       [name |-> <<"b">>, type |-> <<"b">>],
       [name |-> <<"a", " ">>, type |-> <<"B">>],
       [name |-> <<" ">>, type |-> <<"a">>] >>

\* context.plugins(): a plugin without a type serves every target
KnownPlugins == << [type |-> <<"A", " ">>], [type |-> <<>>], [type |-> <<"b">>] >>

\* the forEach over targetNames: the known targets of each name in the order
\* of the names, and a warning for each name without one
RECURSIVE FindTargets(_)
FindTargets(targetNames) ==
    IF targetNames = <<>>
      THEN [found |-> <<>>, warnings |-> <<>>]
      ELSE LET tn == Head(targetNames)
               f == SelectSeq(KnownTargets, LAMBDA t : NormalizeString(t.name) = tn)
               r == FindTargets(Tail(targetNames))
           IN  [found |-> f \o r.found,
                warnings |-> (IF f = <<>> THEN <<[msg |-> "targets.notFound", name |-> tn]>> ELSE <<>>) \o r.warnings]

\* the plugins of a found target: those without a type and those of its type
PluginsOf(t) ==
    SelectSeq(KnownPlugins, LAMBDA pi : NormalizeString(pi.type) = <<>> \/ NormalizeString(pi.type) = NormalizeString(t.type))

\* a getTargetsWithPlugins that leaves the own target's name in the list
GetTargetsWithPluginsRecurring(target, otherTargets) ==
    LET targetNames == SelectSeq([i \in DOMAIN otherTargets |-> NormalizeString(otherTargets[i])], LAMBDA x : x # <<>>)
        r == FindTargets(targetNames)
    IN  [done |-> TRUE,
         batchTargets |-> [i \in DOMAIN r.found |-> [target |-> r.found[i], plugins |-> PluginsOf(r.found[i])]],
         warnings |-> r.warnings]

\* getTargetsWithPlugins(target, otherTargets): the targets to deploy to with
\* their plugins, and the warnings shown on the way
GetTargetsWithPlugins(target, otherTargets) ==
    LET myTargetName == NormalizeString(target.name)
        targetNames == SelectSeq([i \in DOMAIN otherTargets |-> NormalizeString(otherTargets[i])], LAMBDA x : x # <<>>)
        recurrence == IF \E i \in DOMAIN targetNames : targetNames[i] = myTargetName
                        THEN <<[msg |-> "targets.cannotUseRecurrence", name |-> myTargetName]>>
                        ELSE <<>>
        r == FindTargets(SelectSeq(targetNames, LAMBDA x : x # myTargetName))
    IN  [done |-> TRUE,
         batchTargets |-> [i \in DOMAIN r.found |-> [target |-> r.found[i], plugins |-> PluginsOf(r.found[i])]],
         warnings |-> recurrence \o r.warnings]

InitTargets ==
    /\ InitNoSide
    /\ kind = "targets"
    /\ arg \in [fn : {"getTargetsWithPlugins"}, target : [name : Names], otherTargets : SeqsUpTo(Names, MaxNames)]
    /\ result = [done |-> FALSE]
    /\ files = <<>>
    /\ filesTodo = <<>>
    /\ cancelling = FALSE
    /\ started = FALSE
    /\ log = <<>>
    /\ run = Idle
    /\ pending = NoPending
    /\ cbThrows = 0
    /\ InitNoCtx
    /\ InitNoZip
    /\ InitNoMulti

\* the call of getTargetsWithPlugins
CallGetTargetsWithPlugins ==
    /\ kind = "targets"
    /\ ~result.done
    /\ result' = GetTargetsWithPlugins(arg.target, arg.otherTargets)
    /\ UNCHANGED <<arg, sideVars, kind, files, filesTodo, cancelling, started, log, run, pending, cbThrows, ctxVars, zipVars, multiVars>>

NextTargets == CallGetTargetsWithPlugins

SpecTargets == InitTargets /\ [][NextTargets]_vars

\* the known targets a requested name stands for
Matching(name) == {i \in DOMAIN KnownTargets : NormalizeString(KnownTargets[i].name) = NormalizeString(name)}

\* the own target's name given among the requested names
SelfRequested == \E i \in DOMAIN arg.otherTargets : NormalizeString(arg.otherTargets[i]) = NormalizeString(arg.target.name)

\* what C14 says of the requested names in Which
TargetsResolved(Which) ==
    /\ \A j \in DOMAIN result.batchTargets :
          NormalizeString(result.batchTargets[j].target.name) # NormalizeString(arg.target.name)
    /\ \A i \in Which :
          LET n == NormalizeString(arg.otherTargets[i]) IN
          IF n = NormalizeString(arg.target.name)
            THEN \E w \in DOMAIN result.warnings : result.warnings[w] = [msg |-> "targets.cannotUseRecurrence", name |-> n]
            ELSE IF Matching(arg.otherTargets[i]) = {}
                   THEN /\ \E w \in DOMAIN result.warnings : result.warnings[w] = [msg |-> "targets.notFound", name |-> n]
                        /\ \A j \in DOMAIN result.batchTargets : NormalizeString(result.batchTargets[j].target.name) # n
                   ELSE \A k \in Matching(arg.otherTargets[i]) :
                            \E j \in DOMAIN result.batchTargets : result.batchTargets[j].target = KnownTargets[k]

\* C14 as stated: for every own target and every list of requested names the
\* result of getTargetsWithPlugins has no target of the own target's name and
\* no entry for a name without a known target, a warning is shown in both
\* cases, and every other requested name is resolved.
C14_AsStated ==
    (kind = "targets" /\ result.done) => TargetsResolved(DOMAIN arg.otherTargets)

\* C14 for the requested names that are not blank: a name that is empty
\* after trimming is dropped without a warning and is never resolved.
C14_TargetsResolved ==
    (kind = "targets" /\ result.done) =>
        TargetsResolved({i \in DOMAIN arg.otherTargets : NormalizeString(arg.otherTargets[i]) # <<>>})

\* the own target's name, in another case, next to an unknown name
C14_Witness ==
    /\ kind = "targets"
    /\ result.done
    /\ SelfRequested
    /\ Len(result.warnings) = 2
    /\ result.warnings[1].msg = "targets.cannotUseRecurrence"
    /\ result.batchTargets = <<>>
    /\ arg.target.name # arg.otherTargets[1]

\* ------------------------------------- ZIPPlugin.deployZipFile on its own

InitSink ==
    /\ InitNoSide
    /\ kind = "sink"
    /\ files = <<>>
    /\ filesTodo = <<>>
    /\ cancelling = FALSE
    /\ started = FALSE
    /\ log = <<>>
    /\ run = Idle
    /\ pending = NoPending
    /\ cbThrows = 0
    /\ InitNoFn
    /\ InitNoMulti
    /\ InitNoCtx
    /\ archive = <<>>
    /\ sink = NoSink
    /\ fs \in [dir : {"missing", "dir", "file"}, zip : [1..MaxCalls -> {"none", "old"}]]

\* deployZipFile(zip, target) is called, the first time or after the call
\* before it has settled: `now` is the second of the call before or a later
\* one
SinkDeployZipFile ==
    /\ kind = "sink"
    /\ sink.pc \in {"none", "resolved", "rejected"}
    /\ sink.call < MaxCalls
    /\ \E t \in 1..MaxCalls :
          /\ IF sink.call = 0 THEN t = 1 ELSE t \in {sink.now, sink.now + 1}
          /\ sink' = StartSink(t)
    /\ UNCHANGED <<fnVars, sideVars, kind, files, filesTodo, cancelling, started, log, run, pending, cbThrows, ctxVars, archive, fs, multiVars>>

NextSink ==
    \/ SinkDeployZipFile
    \/ ZipDirExists
    \/ ZipMkdirs
    \/ ZipLstat
    \/ ZipFileExists
    \/ ZipWriteFile

SpecSink == InitSink /\ [][NextSink]_vars

\* the file system operations the current call has issued
SinkOps == {sink.ops[i] : i \in DOMAIN sink.ops}

\* the two orders of deployZipFile's file system operations
SinkOrders ==
    { <<"FS.exists(targetDir)", "FS.lstat", "FS.exists(zipFile)", "FS.writeFile">>,
      <<"FS.exists(targetDir)", "FSExtra.mkdirs", "FS.lstat", "FS.exists(zipFile)", "FS.writeFile">> }

\* C15: ZIPPlugin.deployZipFile issues its operations in the order exists
\* (directory), mkdirs if missing, lstat, exists (file), writeFile.  A missing
\* directory is created before the archive is written; when the path is no
\* directory, or mkdirs or lstat fails, the promise rejects and writeFile is
\* never issued.
C15_SinkOrder ==
    kind = "sink" =>
        /\ \E o \in SinkOrders : IsPrefix(sink.ops, o)
        /\ "FS.writeFile" \in SinkOps => fs.dir = "dir"
        /\ fs.dir = "missing" => (sink.pc \in {"none", "existsDir", "mkdirs"} \/ sink.error = ErrMkdirs)
        /\ ("FSExtra.mkdirs" \in SinkOps /\ sink.pc # "mkdirs" /\ sink.error # ErrMkdirs) => fs.dir = "dir"
        /\ sink.error \in {ErrNoDirectory, ErrMkdirs, ErrLstat} => (sink.pc = "rejected" /\ "FS.writeFile" \notin SinkOps)
        /\ fs.dir = "file" =>
              /\ "FS.writeFile" \notin SinkOps
              /\ sink.pc \in {"none", "existsDir", "lstat", "rejected"}
              /\ sink.pc = "rejected" => sink.error \in {ErrNoDirectory, ErrLstat}
        /\ sink.pc = "resolved" => ("FS.writeFile" \in SinkOps /\ fs.zip[sink.now] = ContentOf(sink.call))

\* the first call found no directory, made it and wrote the archive
C15_Witness ==
    /\ kind = "sink"
    /\ sink.call = 1
    /\ "FSExtra.mkdirs" \in SinkOps
    /\ sink.pc = "resolved"
    /\ fs.zip[1] = "new"

\* the call before the current one resolved, in the same second
AgainInSameSecond ==
    /\ kind = "sink"
    /\ sink.call >= 2
    /\ sink.before[Len(sink.before)].pc = "resolved"
    /\ sink.before[Len(sink.before)].now = sink.now

\* C16: deployZipFile called again in the second in which a call before it
\* wrote workspace_<now>.zip: the second call issues no writeFile, the file
\* keeps the content of the first call, and the promise rejects, with the
\* file-already-exists error once lstat has answered.
C16_SecondRunCollides ==
    AgainInSameSecond =>
        /\ "FS.writeFile" \notin SinkOps
        /\ fs.zip[sink.now] = ContentOf(sink.call - 1)
        /\ sink.pc # "resolved"
        /\ sink.pc = "rejected" => sink.error \in {ErrFileExists, ErrLstat}
        /\ ("FS.exists(zipFile)" \in SinkOps /\ sink.pc # "existsZip") => (sink.pc = "rejected" /\ sink.error = ErrFileExists)

\* the second call was rejected because the first call's file is there
C16_Witness ==
    /\ AgainInSameSecond
    /\ sink.call = 2
    /\ sink.pc = "rejected"
    /\ sink.error = ErrFileExists
    /\ fs.zip[sink.now] = "new"

\* ------------------- ZipFileDeployPluginBase.deployFileWithContext: entries

\* how long a path is
MaxPathLen == 3

\* the characters of a path
PathChars == {"/", " ", "a"}

Paths == SeqsUpTo(PathChars, MaxPathLen)

\* what deploy_helpers.toRelativeTargetPath(file, target, baseDirectory)
\* returns: false or a path
RelativeTargetPaths == {[ok |-> FALSE, path |-> <<>>]} \cup {[ok |-> TRUE, path |-> p] : p \in Paths}

\* an entry name that loses one leading separator only
ZipEntryOneSeparator(relativePath) ==
    LET zipEntry == Trim(relativePath) IN
    IF zipEntry # <<>> /\ Head(zipEntry) = "/" THEN Tail(zipEntry) ELSE zipEntry

\* while (0 == zipEntry.indexOf('/')) { zipEntry = zipEntry.substr(1); }
RECURSIVE WithoutLeadingSeparators(_)
WithoutLeadingSeparators(zipEntry) ==
    IF zipEntry # <<>> /\ Head(zipEntry) = "/" THEN WithoutLeadingSeparators(Tail(zipEntry)) ELSE zipEntry

\* the name of the archive entry of a file with this relative path
ZipEntry(relativePath) == WithoutLeadingSeparators(Trim(relativePath))

InitEntry ==
    /\ InitNoSide
    /\ kind = "entry"
    /\ arg \in [fn : {"deployFileWithContext"}, file : Paths, relative : RelativeTargetPaths]
    /\ result = [done |-> FALSE]
    /\ files = <<>>
    /\ filesTodo = <<>>
    /\ cancelling = FALSE
    /\ started = FALSE
    /\ log = <<>>
    /\ run = Idle
    /\ pending = NoPending
    /\ cbThrows = 0
    /\ InitNoCtx
    /\ InitNoZip
    /\ InitNoMulti

\* the FS.readFile callback of deployFileWithContext with the file's data:
\* relativePath is the helper's result, or the file when that is false, and
\* zipFile.file(zipEntry, data) adds the entry
EntryAdded ==
    /\ kind = "entry"
    /\ ~result.done
    /\ LET relativePath == IF arg.relative.ok THEN arg.relative.path ELSE arg.file IN
       /\ result' = [done |-> TRUE, relativePath |-> relativePath, zipEntry |-> ZipEntry(relativePath)]
       /\ archive' = Append(archive, ZipEntry(relativePath))
    /\ UNCHANGED <<arg, sideVars, kind, files, filesTodo, cancelling, started, log, run, pending, cbThrows, ctxVars, sink, fs, multiVars>>

NextEntry == EntryAdded

SpecEntry == InitEntry /\ [][NextEntry]_vars

\* C17: the archive entry of a file is named by its relative path (the file's
\* own path when relativization returns false), trimmed and without its
\* leading separators: the name is what is left of the trimmed path after a
\* run of '/' that no further '/' follows, so no entry name starts with a
\* separator, and '/a' is stored as 'a'.
C17_EntryName ==
    (kind = "entry" /\ result.done) =>
        LET given == IF arg.relative.ok THEN arg.relative.path ELSE arg.file
            t == Trim(given)
            e == archive[Len(archive)]
        IN  /\ Len(archive) = 1
            /\ result.relativePath = given
            /\ e = <<>> \/ Head(e) # "/"
            /\ \E k \in 0..Len(t) :
                  /\ \A i \in 1..k : t[i] = "/"
                  /\ e = SubSeq(t, k + 1, Len(t))
            /\ given = <<"/", "a">> => e = <<"a">>

\* a path with two leading separators, given by the file itself
C17_Witness ==
    /\ kind = "entry"
    /\ result.done
    /\ ~arg.relative.ok
    /\ arg.file = <<"/", "/", "a">>
    /\ archive = << <<"a">> >>

\* ------------------------------- MultiFileDeployPluginBase.deployFile

\* how many onBeforeDeployFile events a deployWorkspace call raises
MaxBefore == 2

\* an event of a deployFile call
FEv(ev, fs_, file, destination, target, error, canceled) ==
    [ev |-> ev, files |-> fs_, file |-> file, destination |-> destination, target |-> target, error |-> error, canceled |-> canceled]

\* the targets and destinations the events of deployWorkspace name
EventTargets == {"T1", "T2"}
EventDestinations == {"d1", "d2"}

InitAdapter ==
    /\ InitNoSide
    /\ kind = "file"
    /\ arg \in [fn : {"deployFile"}, file : Files, target : EventTargets]
    /\ result = [done |-> FALSE]
    /\ files = <<>>
    /\ filesTodo = <<>>
    /\ cancelling = FALSE
    /\ started = FALSE
    /\ log = <<>>
    /\ run = Idle
    /\ pending = NoPending
    /\ cbThrows = 0
    /\ InitNoCtx
    /\ InitNoZip
    /\ InitNoMulti

\* deployFile(file, target, opts): calls this.deployWorkspace([ file ],
\* target, ..), an abstract method here, which is then at work
AdapterDeployFile ==
    /\ kind = "file"
    /\ ~started
    /\ started' = TRUE
    /\ files' = <<arg.file>>
    /\ log' = Append(log, FEv("deployWorkspace", <<arg.file>>, "-", "-", arg.target, "undefined", "undefined"))
    /\ pending' = Pending("workspace", arg.file)
    /\ UNCHANGED <<fnVars, sideVars, kind, filesTodo, cancelling, run, cbThrows, ctxVars, zipVars, multiVars>>

\* deployWorkspace raises onBeforeDeployFile: the adapter raises the caller's
\* onBeforeDeploy with the event's destination, file and target
AdapterBeforeDeployFile ==
    /\ kind = "file"
    /\ pending.what = "workspace"
    /\ Cardinality({i \in DOMAIN log : log[i].ev = "onBeforeDeployFile"}) < MaxBefore
    /\ \E f \in Files : \E d \in EventDestinations : \E t \in EventTargets :
          log' = log \o <<FEv("onBeforeDeployFile", <<>>, f, d, t, "undefined", "undefined"),
                          FEv("onBeforeDeploy", <<>>, f, d, t, "undefined", "undefined")>>
    /\ UNCHANGED <<fnVars, sideVars, kind, files, filesTodo, cancelling, started, run, pending, cbThrows, ctxVars, zipVars, multiVars>>

\* an adapter that passes the completion on without its error
AdapterCompletedNoError ==
    /\ kind = "file"
    /\ pending.what = "workspace"
    /\ \E o \in Outcomes : \E t \in EventTargets :
          log' = log \o <<FEv("onCompleted", <<>>, "-", "-", t, o.error, o.canceled),
                          FEv("file.onCompleted", <<>>, arg.file, "-", t, "undefined", o.canceled)>>
    /\ pending' = NoPending
    /\ UNCHANGED <<fnVars, sideVars, kind, files, filesTodo, cancelling, started, run, cbThrows, ctxVars, zipVars, multiVars>>

\* deployWorkspace raises onCompleted: the adapter raises the caller's
\* onCompleted with the event's canceled, error and target and with the file
\* deployFile was called with
AdapterCompleted ==
    /\ kind = "file"
    /\ pending.what = "workspace"
    /\ \E o \in Outcomes : \E t \in EventTargets :
          log' = log \o <<FEv("onCompleted", <<>>, "-", "-", t, o.error, o.canceled),
                          FEv("file.onCompleted", <<>>, arg.file, "-", t, o.error, o.canceled)>>
    /\ pending' = NoPending
    /\ UNCHANGED <<fnVars, sideVars, kind, files, filesTodo, cancelling, started, run, cbThrows, ctxVars, zipVars, multiVars>>

NextAdapter ==
    \/ AdapterDeployFile
    \/ AdapterBeforeDeployFile
    \/ AdapterCompleted

SpecAdapter == InitAdapter /\ [][NextAdapter]_vars

\* C18: MultiFileDeployPluginBase.deployFile calls deployWorkspace once, with
\* the list of the one file; every onBeforeDeployFile of that call is passed
\* on as one onBeforeDeploy with the same file, destination and target, and
\* its onCompleted as one file-level onCompleted with the same canceled,
\* error and target and with the file.
C18_AdapterPassesOn ==
    kind = "file" =>
        /\ Count("deployWorkspace") <= 1
        /\ started => log[1] = FEv("deployWorkspace", <<arg.file>>, "-", "-", arg.target, "undefined", "undefined")
        /\ \A i \in Idx("onBeforeDeployFile") : i < Len(log) /\ log[i + 1] = [log[i] EXCEPT !.ev = "onBeforeDeploy"]
        /\ Count("onBeforeDeploy") = Count("onBeforeDeployFile")
        /\ \A i \in Idx("onCompleted") :
              i < Len(log) /\ log[i + 1] = [log[i] EXCEPT !.ev = "file.onCompleted", !.file = arg.file]
        /\ Count("file.onCompleted") = Count("onCompleted")

\* a call whose deployWorkspace named another file before it failed
C18_Witness ==
    /\ kind = "file"
    /\ \E i \in Idx("onBeforeDeploy") : log[i].file # arg.file
    /\ \E i \in Idx("file.onCompleted") : log[i].error = ErrDeploy /\ log[i].target # arg.target

\* ------------------------------------------------- all deploy workflows

\* every workflow that deploys files: the two queue workflows, the ZIP
\* plugin and the fan-out
SpecDeploy == (InitBase \/ InitCtx \/ InitZip \/ InitMulti) /\ [][NextBase \/ NextCtx \/ NextZip \/ NextMulti]_vars

\* the operations that were started (an event in starts) and have not ended
\* (no event in ends before the next start)
Outstanding(starts, ends) ==
    {i \in DOMAIN log :
        /\ log[i].ev \in starts
        /\ ~\E k \in DOMAIN log :
              /\ i < k
              /\ log[k].ev \in ends
              /\ \A j \in DOMAIN log : (i < j /\ j < k) => log[j].ev \notin starts}

OutstandingFiles == Outstanding({"deployFile", "deployFileWithContext"}, {"onFileCompleted"})

OutstandingPlugins == Outstanding({"plugin.deployWorkspace"}, {"plugin.onCompleted", "plugin.threw"})

\* C19: in every state of a deploy at most one file operation is dispatched
\* and not completed, and at most one plugin's deployWorkspace is started and
\* not completed.
C19_OneOutstanding ==
    /\ Cardinality(OutstandingFiles) <= 1
    /\ Cardinality(OutstandingPlugins) <= 1

\* the second file of a context workflow is in flight
C19_Witness ==
    /\ kind = "ctx"
    /\ Cardinality(OutstandingFiles) = 1
    /\ Count("onFileCompleted") >= 1
    /\ pending.what = "file"

\* ------------------------ deployFile of a plugin with a context

InitFile ==
    /\ InitNoSide
    /\ kind \in {"ctx", "zip"}
    /\ arg \in [fn : {"deployFile"}, file : Files]
    /\ result = [done |-> FALSE]
    /\ files = <<>>
    /\ filesTodo = <<>>
    /\ cancelling \in BOOLEAN
    /\ started = FALSE
    /\ log = <<>>
    /\ run = Idle
    /\ pending = NoPending
    /\ cbThrows = 0
    /\ InitNoMulti
    /\ InitNoCtx
    /\ archive = <<>>
    /\ sink = NoSink
    /\ fs \in [dir : {"missing", "dir", "file"}, zip : {NoZipFiles, [NoZipFiles EXCEPT ![1] = "old"]}]
    /\ kind = "ctx" => fs = [dir |-> "dir", zip |-> NoZipFiles]

NextFile ==
    \/ MultiFileDeployFile
    \/ CtxContextRejected
    \/ CtxContextResolved
    \/ CtxDeployNext
    \/ CtxFileCompletesAsync
    \/ CtxFileCompleted
    \/ CtxDestroySettles
    \/ Cancel
    \/ ZipDirExists
    \/ ZipMkdirs
    \/ ZipLstat
    \/ ZipFileExists
    \/ ZipWriteFile

SpecFile == InitFile /\ [][NextFile]_vars

\* C20: deployFile of a plugin with a context: when the file's
\* deployFileWithContext reports an error (and no cancellation), the
\* onCompleted given to deployFile reports that error.
C20_FileErrorReported ==
    arg.fn = "deployFile" =>
        \A i \in Idx("onFileCompleted") :
            (log[i].error \notin NoErr /\ ~ToBooleanSafe(log[i].canceled)) =>
                \A k \in Idx("file.onCompleted") : log[k].error = log[i].error

\* C21: DeployPluginBase.deployWorkspace polls the cancellation after each
\* file: once context.isCancelling() is true no further file is started, and
\* the onCompleted that is raised from then on says canceled = true.
C21_CancelPolledAfterFile ==
    [][(kind = "base" /\ cancelling) =>
          /\ Count("deployFile")' = Count("deployFile")
          /\ Count("onCompleted")' > Count("onCompleted") => log'[Len(log')].canceled = "true"]_vars


\* ------------------------------ a backend that breaks the contract

\* how often a backend reports a file and goes on after that
MaxMisbehaviours == 1

\* an operation in flight together with the arguments its destroyContext
\* call keeps for `completed`
Parked(p, s) == [pending |-> p, saved |-> s]

InitBackend ==
    /\ kind = "ctx"
    /\ files \in SeqsUpTo(Files, MaxFiles)
    /\ filesTodo = <<>>
    /\ cancelling \in BOOLEAN
    /\ started = FALSE
    /\ log = <<>>
    /\ run = Idle
    /\ pending = NoPending
    /\ cbThrows = MaxCallbackThrows
    /\ backend = NoBackend
    /\ other = NoSink
    /\ nest = <<>>
    /\ InitNoFn
    /\ InitNoMulti
    /\ InitNoCtx
    /\ InitNoZip

\* deployNext hands the queue's head to a deployFileWithContext that invokes
\* its onCompleted synchronously and, when that call returns, throws or
\* invokes it once more: fileCompleted runs inside the backend's call, and the
\* call stays open (frames) until everything fileCompleted started has returned
BackendDeployNext ==
    /\ kind = "ctx"
    /\ run.fn = "deployNext"
    /\ Len(filesTodo) >= 1
    /\ backend.count < MaxMisbehaviours
    /\ LET f == Head(filesTodo) IN
       /\ filesTodo' = Tail(filesTodo)
       /\ log' = Append(log, Ev("deployFileWithContext", f, "undefined", "undefined"))
       /\ stack' = Append(stack, f)
       /\ \E o \in Outcomes, w \in {"throws", "again"} :
             /\ run' = Fn("fileCompleted", f, o.error, o.canceled)
             /\ backend' = [backend EXCEPT !.frames = Append(@, [file |-> f, what |-> w]),
                                           !.count = @ + 1]
    /\ UNCHANGED <<fnVars, other, nest, kind, files, cancelling, started, pending, cbThrows, task, wrapper, saved, zipVars, multiVars>>

\* the synchronous onCompleted has returned into the backend's call, which now
\* throws (deployNext's catch: fileCompleted(currentFile, e)) or reports the
\* file a second time.  What was started meanwhile stays in flight.
BackendGoesOn ==
    /\ kind = "ctx"
    /\ run.fn = "none"
    /\ backend.frames # <<>>
    /\ LET n  == Len(backend.frames)
           fr == backend.frames[n]
       IN  /\ backend' = [backend EXCEPT !.frames = SubSeq(@, 1, n - 1),
                                         !.parked = IF pending = NoPending THEN @ ELSE Append(@, Parked(pending, saved))]
           /\ pending' = NoPending
           /\ IF fr.what = "throws"
                THEN run' = Fn("fileCompleted", fr.file, ErrThrown, "undefined")
                ELSE \E o \in Outcomes : run' = Fn("fileCompleted", fr.file, o.error, o.canceled)
    /\ UNCHANGED <<fnVars, other, nest, kind, files, filesTodo, cancelling, started, log, cbThrows, ctxVars, zipVars, multiVars>>

\* of the operations in flight another one is the next to settle
BackendTurn ==
    /\ kind = "ctx"
    /\ run.fn = "none"
    /\ backend.frames = <<>>
    /\ \E i \in DOMAIN backend.parked :
          LET rest == SubSeq(backend.parked, 1, i - 1) \o SubSeq(backend.parked, i + 1, Len(backend.parked)) IN
          /\ pending' = backend.parked[i].pending
          /\ saved' = backend.parked[i].saved
          /\ backend' = [backend EXCEPT !.parked = IF pending = NoPending THEN rest ELSE Append(rest, Parked(pending, saved))]
    /\ UNCHANGED <<fnVars, other, nest, kind, files, filesTodo, cancelling, started, log, run, cbThrows, stack, task, wrapper, zipVars, multiVars>>

\* a promise or a backend callback settles only when no call is open
BackendContextResolved == backend.frames = <<>> /\ CtxContextResolved

BackendContextRejected == backend.frames = <<>> /\ CtxContextRejected

BackendFileCompletesAsync == backend.frames = <<>> /\ CtxFileCompletesAsync

BackendDestroySettles == backend.frames = <<>> /\ CtxDestroySettles

NextBackend ==
    \/ CtxDeployWorkspace
    \/ BackendContextRejected
    \/ BackendContextResolved
    \/ CtxDeployNext
    \/ BackendDeployNext
    \/ CtxFileCompleted
    \/ BackendGoesOn
    \/ BackendTurn
    \/ BackendFileCompletesAsync
    \/ BackendDestroySettles

SpecBackend == InitBackend /\ [][NextBackend]_vars

\* C22: DeployPluginWithContextBase.deployWorkspace tears down once and
\* completes once even when deployFileWithContext reports synchronously and
\* then throws or reports again: destroy is invoked at most once, onCompleted
\* is raised at most once, and no file of the queue is dispatched twice.
C22_OnceWithAnyBackend ==
    kind = "ctx" =>
       /\ Count("destroy") <= 1
       /\ Count("onCompleted") <= 1
       /\ Count("deployFileWithContext") <= Len(files)


\* C23: MultiTargetDeployPluginBase.deployWorkspace, with no cancellation:
\* when a plugin's deployWorkspace throws, the next (target, plugin) pair is
\* invoked all the same, the next plugin of the same target first, and the
\* fan-out's onCompleted comes after all pairs.
C23_ThrowIsPerPlugin ==
    (kind = "multi" /\ ~cancelling) =>
        \A i \in Idx("plugin.threw") :
            /\ InvokedBefore(i) < Len(PairsOf(targets)) =>
                  IF i < Len(log)
                    THEN /\ log[i + 1].ev = "plugin.deployWorkspace"
                         /\ <<log[i + 1].target, log[i + 1].plugin>> = PairsOf(targets)[InvokedBefore(i) + 1]
                    ELSE run.fn \in {"deployNextPlugin", "deployNextTarget"}
            /\ \A k \in Idx("onCompleted") : i < k /\ InvokedPairs = PairsOf(targets)


\* C24: MultiTargetDeployPluginBase.deployWorkspace called while
\* context.isCancelling() is true: whatever the resolved targets are (none,
\* or targets without plugins), no plugin's deployWorkspace is invoked and the
\* run ends with one onCompleted that says canceled = true.
C24_FanOutCancelledAtStart ==
    (kind = "multi" /\ started /\ log[1].canceled = "true") =>
        /\ Count("plugin.deployWorkspace") = 0
        /\ run.fn = "none" =>
              /\ Len(log) = 2
              /\ log[2].ev = "onCompleted"
              /\ log[2].canceled = "true"


\* ------------- MultiTargetDeployPluginBase: the onBeforeDeployFile forwarder

\* a string-valued property that may be missing, and the strings it may hold
Texts == {<<>>, <<" ">>, <<"a">>, <<" ", "b">>}

Optional == {[defined |-> FALSE, str |-> <<>>]} \cup {[defined |-> TRUE, str |-> s] : s \in Texts}

\* deploy_helpers.toStringSafe(val): the string, '' for undefined and null
ToStringSafe(val) == IF val.defined THEN val.str ELSE <<>>

\* the destination the forwarder passes on: the target's name, else the
\* plugin's __type, in square brackets before the plugin's destination.  The
\* statement for __file computes a string and assigns it to nothing.
Relabel(name, type, file, eDestination) ==
    LET d1 == Trim(ToStringSafe(name))
        d2 == IF d1 = <<>> THEN Trim(ToStringSafe(type)) ELSE d1
        unused == Trim(ToStringSafe(file))
        destination == d2
        originalDestination == ToStringSafe(eDestination)
    IN  IF destination # <<>>
          THEN <<"[">> \o destination \o <<"]", " ">> \o originalDestination
          ELSE originalDestination

InitLabel ==
    /\ InitNoSide
    /\ kind = "label"
    /\ arg \in [fn : {"onBeforeDeployFile"}, name : Optional, type : Optional, file : Optional, destination : Optional]
    /\ result = [done |-> FALSE]
    /\ files = <<>>
    /\ filesTodo = <<>>
    /\ cancelling = FALSE
    /\ started = FALSE
    /\ log = <<>>
    /\ run = Idle
    /\ pending = NoPending
    /\ cbThrows = 0
    /\ InitNoCtx
    /\ InitNoZip
    /\ InitNoMulti

\* the running plugin raises onBeforeDeployFile and the caller has a handler
LabelBeforeDeployFile ==
    /\ kind = "label"
    /\ ~result.done
    /\ result' = [done |-> TRUE, destination |-> Relabel(arg.name, arg.type, arg.file, arg.destination)]
    /\ UNCHANGED <<arg, sideVars, kind, files, filesTodo, cancelling, started, log, run, pending, cbThrows, ctxVars, zipVars, multiVars>>

NextLabel == LabelBeforeDeployFile

SpecLabel == InitLabel /\ [][NextLabel]_vars

\* C25: the destination the fan-out passes to onBeforeDeployFile is
\* '[<id>] ' followed by the inner destination, where <id> is the trimmed
\* target name, else the trimmed plugin type, else the trimmed plugin file
\* tag; it is the inner destination alone only when all three are empty.
C25_Relabelled ==
    (kind = "label" /\ result.done) =>
        LET n  == Trim(ToStringSafe(arg.name))
            t  == Trim(ToStringSafe(arg.type))
            f  == Trim(ToStringSafe(arg.file))
            id == IF n # <<>> THEN n ELSE IF t # <<>> THEN t ELSE f
            d  == ToStringSafe(arg.destination)
        IN  result.destination = IF id # <<>> THEN <<"[">> \o id \o <<"]", " ">> \o d ELSE d


\* ----------------------------------- ZIPPlugin.deployZipFile: the directory

\* how long a target path is
MaxDirLen == 3

\* target.target: missing, or a path of names and separators
TargetPaths == {[defined |-> FALSE, str |-> <<>>]} \cup {[defined |-> TRUE, str |-> s] : s \in SeqsUpTo({"/", "a", "b"}, MaxDirLen)}

\* vscode.workspace.rootPath
RootPaths == {<<"/", "r">>, <<"/", "r", "/", "s">>}

\* Path.isAbsolute (POSIX)
IsAbsolute(path) == path # <<>> /\ Head(path) = "/"

\* Path.normalize for paths without '.' and '..' segments: runs of separators
\* become one separator, and the empty path becomes '.'
RECURSIVE Collapse(_)
Collapse(path) ==
    IF Len(path) < 2 THEN path
    ELSE IF path[1] = "/" /\ path[2] = "/" THEN Collapse(Tail(path))
    ELSE <<Head(path)>> \o Collapse(Tail(path))

Normalize(path) == IF path = <<>> THEN <<".">> ELSE Collapse(path)

\* Path.join(path) with one argument: the normalized argument
PathJoin(path) == Normalize(path)

\* the directory deployZipFile writes to
TargetDir(target, rootPath) ==
    LET t1 == ToStringSafe(target)
        t2 == IF t1 = <<>> THEN <<".", "/">> ELSE t1
    IN  IF ~IsAbsolute(t2) THEN PathJoin(rootPath) ELSE t2

InitDir ==
    /\ InitNoSide
    /\ kind = "dir"
    /\ arg \in [fn : {"deployZipFile"}, target : TargetPaths, rootPath : RootPaths]
    /\ result = [done |-> FALSE]
    /\ files = <<>>
    /\ filesTodo = <<>>
    /\ cancelling = FALSE
    /\ started = FALSE
    /\ log = <<>>
    /\ run = Idle
    /\ pending = NoPending
    /\ cbThrows = 0
    /\ InitNoCtx
    /\ InitNoZip
    /\ InitNoMulti

\* deployZipFile up to the promise it returns
DirChosen ==
    /\ kind = "dir"
    /\ ~result.done
    /\ result' = [done |-> TRUE, targetDir |-> TargetDir(arg.target, arg.rootPath)]
    /\ UNCHANGED <<arg, sideVars, kind, files, filesTodo, cancelling, started, log, run, pending, cbThrows, ctxVars, zipVars, multiVars>>

NextDir == DirChosen

SpecDir == InitDir /\ [][NextDir]_vars

\* the names of a path, in order
RECURSIVE Segments(_)
Segments(path) ==
    IF path = <<>> THEN <<>>
    ELSE IF Head(path) = "/" THEN Segments(Tail(path))
    ELSE LET rest == Segments(Tail(path)) IN
         IF Len(path) > 1 /\ path[2] # "/"
           THEN <<<<Head(path)>> \o Head(rest)>> \o Tail(rest)
           ELSE <<<<Head(path)>>>> \o rest

\* C26: deployZipFile writes to the target path when it is absolute, to the
\* workspace root when it is missing or empty, and for a relative target path
\* to that path below the workspace root.
C26_OutputDirectory ==
    (kind = "dir" /\ result.done) =>
        LET t == ToStringSafe(arg.target) IN
        IF t = <<>> THEN result.targetDir = arg.rootPath
        ELSE IF IsAbsolute(t) THEN result.targetDir = t
        ELSE /\ IsAbsolute(result.targetDir)
             /\ Segments(result.targetDir) = Segments(arg.rootPath) \o Segments(t)


\* ------------------------------ ZIPPlugin.deployZipFile, two runs at once

InitSinks ==
    /\ kind = "sinks"
    /\ backend = NoBackend
    /\ other = NoSink
    /\ nest = <<>>
    /\ files = <<>>
    /\ filesTodo = <<>>
    /\ cancelling = FALSE
    /\ started = FALSE
    /\ log = <<>>
    /\ run = Idle
    /\ pending = NoPending
    /\ cbThrows = 0
    /\ InitNoFn
    /\ InitNoMulti
    /\ InitNoCtx
    /\ archive = <<>>
    /\ sink = NoSink
    /\ fs \in [dir : {"missing", "dir", "file"}, zip : [1..MaxCalls -> {"none", "old"}]]

\* deployZipFile(zip, target) is called, the second time while the first call
\* waits for the file system: each call returns after asking
\* FS.exists(targetDir).  sink is the run whose callback comes next, other is
\* the run beside it.
SinksDeployZipFile ==
    /\ kind = "sinks"
    /\ other.call = 0
    /\ IF sink.call = 0
         THEN /\ sink' = StartSink(1)
              /\ other' = other
         ELSE /\ sink.call < MaxCalls
              /\ \E t \in {sink.now, sink.now + 1} :
                    /\ t <= MaxCalls
                    /\ sink' = [pc |-> "existsDir", error |-> "undefined", ops |-> <<"FS.exists(targetDir)">>,
                                now |-> t, call |-> sink.call + 1, before |-> <<>>]
              /\ other' = sink
    /\ UNCHANGED <<fnVars, backend, nest, kind, files, filesTodo, cancelling, started, log, run, pending, cbThrows, ctxVars, archive, fs, multiVars>>

\* the file system answers the other run first
SinksTurn ==
    /\ kind = "sinks"
    /\ other.pc \in {"existsDir", "mkdirs", "lstat", "existsZip", "write"}
    /\ sink' = other
    /\ other' = sink
    /\ UNCHANGED <<fnVars, backend, nest, kind, files, filesTodo, cancelling, started, log, run, pending, cbThrows, ctxVars, archive, fs, multiVars>>

NextSinks ==
    \/ SinksDeployZipFile
    \/ SinksTurn
    \/ ZipDirExists
    \/ ZipMkdirs
    \/ ZipLstat
    \/ ZipFileExists
    \/ ZipWriteFile

SpecSinks == InitSinks /\ [][NextSinks]_vars

\* C27: of two deployZipFile runs for the same directory and the same second
\* that are in flight at once, at most one writes the output file: the sink
\* never writes over a file that is there, and the two runs never both
\* resolve.
C27_OneWriterPerName ==
    [][(kind = "sinks" /\ other.call > 0 /\ sink.now = other.now) =>
          /\ \A t \in 1..MaxCalls : fs.zip[t] # "none" => fs'.zip[t] = fs.zip[t]
          /\ ~(sink'.pc = "resolved" /\ other'.pc = "resolved")]_vars


\* C28: in both queue workflows, with callbacks that return: an exception
\* that deployFile or deployFileWithContext throws before it reported
\* anything becomes the one onFileCompleted of that dispatch, with the
\* exception as error and no canceled flag, and the next queued file is
\* dispatched after it.
C28_ThrownIsFileError ==
    (kind \in {"base", "ctx"} /\ cbThrows = 0) =>
        \A i \in Idx("onFileCompleted") :
            log[i].error = ErrThrown =>
                /\ i - 1 \in Dispatches
                /\ log[i - 1].file = log[i].file
                /\ ~ToBooleanSafe(log[i].canceled)
                /\ i < Len(log) => log[i + 1].ev # "onFileCompleted"
                /\ Cardinality({j \in Dispatches : j < i}) < Len(files) =>
                      IF i < Len(log)
                        THEN /\ log[i + 1].ev \in {"deployFile", "deployFileWithContext"}
                             /\ log[i + 1].file = files[Cardinality({j \in Dispatches : j < i}) + 1]
                        ELSE run.fn \in {"deployNextFile", "deployNext"}


\* the files whose completion reported success, in the order of the reports
\* (with the one whose report is about to be raised)
AddedFiles ==
    LET d == SelectSeq(log, LAMBDA e : e.ev = "onFileCompleted" /\ e.error \in NoErr /\ ~ToBooleanSafe(e.canceled))
    IN  [i \in DOMAIN d |-> d[i].file]
        \o (IF run.fn = "fileCompleted" /\ run.error \in NoErr /\ ~ToBooleanSafe(run.canceled) THEN <<run.file>> ELSE <<>>)

\* C29: ZIP plugin, with no cancellation and callbacks that return: a file
\* whose read fails completes once, with the read error; the archive gets no
\* entry for it; and the files after it are dispatched and, when their read
\* succeeds, added, so that at the end every file was dispatched and the
\* archive holds the files that were read, in order.
C29_ReadFailureGoesOn ==
    (kind = "zip" /\ ~cancelling /\ cbThrows = 0) =>
        /\ archive = AddedFiles
        /\ OneAtATime
        /\ \A i \in Idx("onFileCompleted") :
              log[i].error = ErrRead =>
                 /\ i - 1 \in Dispatches
                 /\ log[i - 1].file = log[i].file
                 /\ ~ToBooleanSafe(log[i].canceled)
                 /\ i < Len(log) => log[i + 1].ev # "onFileCompleted"
                 /\ Cardinality({j \in Dispatches : j < i}) < Len(files) =>
                       IF i < Len(log)
                         THEN /\ log[i + 1].ev = "deployFileWithContext"
                              /\ log[i + 1].file = files[Cardinality({j \in Dispatches : j < i}) + 1]
                         ELSE run.fn = "deployNext"
        /\ Count("onCompleted") >= 1 =>
              /\ DispatchedFiles = files
              /\ Count("onFileCompleted") = Len(files)

\* the read of the first file failed, the second file is in the archive
C29_Witness ==
    /\ kind = "zip"
    /\ ~cancelling
    /\ cbThrows = 0
    /\ Len(files) = MaxFiles
    /\ Count("onCompleted") = 1
    /\ \E i \in Idx("onFileCompleted") : log[i].error = ErrRead /\ log[i].file = files[1] /\ i < Len(log) - 3
    /\ archive = <<files[2]>>


\* --------------------------- MultiTargetDeployPluginBase inside a fan-out

\* how many fan-outs may be open inside one another
MaxDepth == 3

\* the `targets` property a known target may have
OtherTargets == {<<>>, << <<"a">> >>, << <<"b">> >>, << <<"A", " ">>, <<"b">> >>}

\* the known plugin that is the fan-out plugin itself: it serves the targets
\* of its type
IsFanOut(pi) == NormalizeString(pi.type) = <<"b">>

\* the `targets` property of a known target in the configuration at hand
OthersOf(t) == arg.others[CHOOSE i \in DOMAIN KnownTargets : KnownTargets[i] = t]

\* createContext(target) of a fan-out plugin: the other targets the target
\* names, with their plugins
CreateContext(t) == GetTargetsWithPlugins(t, OthersOf(t)).batchTargets

\* a deployWorkspace call of the fan-out plugin that has just started
Frame(t) == [target |-> t, targetsTodo |-> CreateContext(t), pluginsTodo |-> <<>>, current |-> t, pc |-> "deployNextTarget"]

InitNest ==
    /\ kind = "nest"
    /\ arg \in [fn : {"deployWorkspace"}, start : {t \in DOMAIN KnownTargets : \E pi \in {KnownPlugins[k] : k \in DOMAIN KnownPlugins} : IsFanOut(pi) /\ NormalizeString(pi.type) = NormalizeString(KnownTargets[t].type)},
                others : [DOMAIN KnownTargets -> OtherTargets]]
    /\ result = [done |-> FALSE]
    /\ backend = NoBackend
    /\ other = NoSink
    /\ nest = <<>>
    /\ files = <<>>
    /\ filesTodo = <<>>
    /\ cancelling = FALSE
    /\ started = FALSE
    /\ log = <<>>
    /\ run = Idle
    /\ pending = NoPending
    /\ cbThrows = 0
    /\ InitNoCtx
    /\ InitNoZip
    /\ InitNoMulti

\* the fan-out plugin's deployWorkspace is called for a target of its type
NestDeployWorkspace ==
    /\ kind = "nest"
    /\ ~started
    /\ started' = TRUE
    /\ nest' = <<Frame(KnownTargets[arg.start])>>
    /\ UNCHANGED <<fnVars, backend, other, kind, files, filesTodo, cancelling, log, run, pending, cbThrows, ctxVars, zipVars, multiVars>>

\* deployNextTarget of the innermost open call: with no target left
\* completed() raises its onCompleted, which for a nested call is the outer
\* call's pluginCompleted; else the next target and its plugins are taken
NestDeployNextTarget ==
    /\ kind = "nest"
    /\ nest # <<>>
    /\ LET n == Len(nest)
           top == nest[n]
       IN  /\ top.pc = "deployNextTarget"
           /\ IF Len(top.targetsTodo) < 1
                THEN /\ nest' = SubSeq(nest, 1, n - 1)
                     /\ result' = [done |-> n = 1]
                ELSE /\ nest' = [nest EXCEPT ![n] = [top EXCEPT !.current = Head(top.targetsTodo).target,
                                                                 !.pluginsTodo = Head(top.targetsTodo).plugins,
                                                                 !.targetsTodo = Tail(top.targetsTodo),
                                                                 !.pc = "deployNextPlugin"]]
                     /\ result' = result
    /\ UNCHANGED <<arg, backend, other, kind, files, filesTodo, cancelling, started, log, run, pending, cbThrows, ctxVars, zipVars, multiVars>>

\* deployNextPlugin of the innermost open call: with no plugin left
\* targetCompleted() goes to the next target; else the next plugin's
\* deployWorkspace is called with the current target.  The fan-out plugin
\* itself opens a call inside this one; any other plugin completes, and
\* pluginCompleted calls deployNextPlugin.
NestDeployNextPlugin ==
    /\ kind = "nest"
    /\ nest # <<>>
    /\ LET n == Len(nest)
           top == nest[n]
       IN  /\ top.pc = "deployNextPlugin"
           /\ IF Len(top.pluginsTodo) < 1
                THEN nest' = [nest EXCEPT ![n].pc = "deployNextTarget"]
                ELSE LET popped == [nest EXCEPT ![n].pluginsTodo = Tail(top.pluginsTodo)] IN
                     IF IsFanOut(Head(top.pluginsTodo))
                       THEN /\ n < MaxDepth
                            /\ nest' = Append(popped, Frame(top.current))
                       ELSE nest' = popped
    /\ UNCHANGED <<fnVars, backend, other, kind, files, filesTodo, cancelling, started, log, run, pending, cbThrows, ctxVars, zipVars, multiVars>>

NextNest ==
    \/ NestDeployWorkspace
    \/ NestDeployNextTarget
    \/ NestDeployNextPlugin

SpecNest == InitNest /\ [][NextNest]_vars

C31_CancelledArchiveWritten ==
    (kind = "zip" /\ cbThrows = 0) =>
        \A i \in Idx("onFileCompleted") :
            ToBooleanSafe(log[i].canceled) =>
                /\ \A j \in Idx("onFileCompleted") : j <= i
                /\ \A j \in Dispatches : j < i
                /\ Len(log) >= i + 2
                /\ log[i + 1].ev = "destroyContext"
                /\ log[i + 2].ev = "destroy"
                /\ Count("destroy") = 1
                /\ sink.call = 1
                /\ archive = AddedFiles
                /\ sink.pc = "resolved" => ("FS.writeFile" \in SinkOps /\ fs.zip[sink.now] = ContentOf(sink.call))
                /\ \A k \in Idx("onCompleted") :
                      /\ k > i + 2
                      /\ log[k].canceled = "true"
                      /\ log[k].error \in NoErr
                      /\ sink.pc \in {"resolved", "rejected"}

\* the first file was added, the second completed as canceled, and the
\* archive with the first file was written
C31_Witness ==
    /\ kind = "zip"
    /\ cbThrows = 0
    /\ Len(files) = MaxFiles
    /\ \E i \in Idx("onFileCompleted") : log[i].file = files[2] /\ ToBooleanSafe(log[i].canceled)
    /\ archive = <<files[1]>>
    /\ sink.pc = "resolved"
    /\ fs.zip[sink.now] = ContentOf(sink.call)
    /\ Count("onCompleted") = 1
    /\ log[Len(log)].canceled = "true"


\* C32: DeployPluginBase.deployWorkspace: once the caller's onFileCompleted
\* has thrown, the exception has been logged and that is the last thing the
\* run does: nothing runs and nothing is awaited, so no further file is
\* dispatched and onCompleted is never raised.
C32_CallbackThrowStalls ==
    (kind = "base" /\ cbThrows > 0) =>
        /\ cbThrows = 1
        /\ Len(log) >= 2
        /\ log[Len(log)].ev = "log"
        /\ log[Len(log)].error = ErrCallback
        /\ log[Len(log) - 1].ev = "onFileCompleted"
        /\ log[Len(log) - 1].file = log[Len(log)].file
        /\ Count("onCompleted") = 0
        /\ ~Going

\* onFileCompleted threw for the first file while another file was queued
C32_Witness ==
    /\ kind = "base"
    /\ cbThrows = 1
    /\ Count("deployFile") = 1
    /\ filesTodo # <<>>
    /\ Head(filesTodo) # ""
    /\ ~Going


\* C33: no step of a deployWorkspace run of DeployPluginBase,
\* DeployPluginWithContextBase or MultiTargetDeployPluginBase changes the
\* caller's file list or the resolved targets with their plugins, whether the
\* run goes through, fails or is canceled: the queues are copies.  Every
\* plugin of a fan-out is therefore called with the full file list.
C33_QueuesArePrivate ==
    [][/\ files' = files
       /\ targets' = targets
       /\ \A i \in DOMAIN log' : log'[i].ev = "plugin.deployWorkspace" => log'[i].files = files]_vars

\* a fan-out over MaxTargets targets that has called a second plugin after the
\* first one's run and has come to its end
C33_Witness ==
    /\ kind = "multi"
    /\ Len(files) = 2
    /\ Count("plugin.deployWorkspace") >= 2
    /\ Count("onCompleted") = 1
    /\ targetsTodo = <<>>
    /\ Len(targets) = MaxTargets
====
